---- MODULE Spec2Model ----
(***************************************************************************)
(* smart-chatbus: the Flask service of src/app.py.  A prompt is classified *)
(* (greeting, thank-you, prediction request, fallback), the entity         *)
(* extractors of NLPProcessor turn it into a structured query, and         *)
(* XGBoostPredictor.predict_passengers encodes the query into the feature  *)
(* vector given to the model.  Texts are TLA+ strings, scanned character   *)
(* by character the way str.lower, str.strip, `in` and re.search scan them.*)
(***************************************************************************)
EXTENDS Integers, Sequences, FiniteSets, TLC

VARIABLES
    now,          \* the service clock: the date datetime.now() reads
    pc,           \* "idle" | "received" | "responded"
    request,      \* the request in flight: endpoint and JSON body
    response,     \* the response object returned to the caller
    calls,        \* the components the handler invoked, in order
    model_input,  \* the vectors handed to model.predict by this request
    raised,       \* the exceptions raised while handling, in order
    loaded        \* the module globals: encoders, model, training_feature_order

vars == <<now, pc, request, response, calls, model_input, raised, loaded>>

(***************************************************************************)
(* Strings                                                                 *)
(***************************************************************************)
Digits == {"0", "1", "2", "3", "4", "5", "6", "7", "8", "9"}

Whitespace == {" ", "\t", "\n"}

Min(S) == CHOOSE x \in S : \A y \in S : x <= y

\* The optional value of Python: None is <<>>, a value v is <<v>>.
None == <<>>

Some(v) == <<v>>

CharAt(s, i) == SubSeq(s, i, i)

\* s[i-1:i-1+len(lit)] == lit
LitAt(s, i, lit) ==
    /\ i >= 1
    /\ i + Len(lit) - 1 <= Len(s)
    /\ SubSeq(s, i, i + Len(lit) - 1) = lit

\* n consecutive digits start at position i
DigitsAt(s, i, n) ==
    /\ i >= 1
    /\ i + n - 1 <= Len(s)
    /\ \A j \in i..(i + n - 1) : CharAt(s, j) \in Digits

\* Python's `k in s` for strings
Contains(s, k) == \E i \in 1..(Len(s) - Len(k) + 1) : LitAt(s, i, k)

\* any(k in s for k in keywords)
ContainsAny(s, keywords) == \E n \in DOMAIN keywords : Contains(s, keywords[n])

UpperToLower ==
    "A" :> "a" @@ "B" :> "b" @@ "C" :> "c" @@ "D" :> "d" @@ "E" :> "e" @@
    "F" :> "f" @@ "G" :> "g" @@ "H" :> "h" @@ "I" :> "i" @@ "J" :> "j" @@
    "K" :> "k" @@ "L" :> "l" @@ "M" :> "m" @@ "N" :> "n" @@ "O" :> "o" @@
    "P" :> "p" @@ "Q" :> "q" @@ "R" :> "r" @@ "S" :> "s" @@ "T" :> "t" @@
    "U" :> "u" @@ "V" :> "v" @@ "W" :> "w" @@ "X" :> "x" @@ "Y" :> "y" @@
    "Z" :> "z"

RECURSIVE lower(_)
\* str.lower()
lower(s) ==
    IF s = "" THEN ""
    ELSE LET c == CharAt(s, 1)
         IN (IF c \in DOMAIN UpperToLower THEN UpperToLower[c] ELSE c)
                \o lower(SubSeq(s, 2, Len(s)))

\* str.strip(): leading and trailing whitespace removed
strip(s) ==
    LET solid == {i \in 1..Len(s) : CharAt(s, i) \notin Whitespace}
    IN IF solid = {} THEN ""
       ELSE SubSeq(s, Min(solid), CHOOSE i \in solid : \A j \in solid : j <= i)

DigitValue ==
    "0" :> 0 @@ "1" :> 1 @@ "2" :> 2 @@ "3" :> 3 @@ "4" :> 4 @@
    "5" :> 5 @@ "6" :> 6 @@ "7" :> 7 @@ "8" :> 8 @@ "9" :> 9

DigitChar == <<"1", "2", "3", "4", "5", "6", "7", "8", "9">>

\* str.isdigit(): non-empty and all digits
isdigit(s) == s # "" /\ \A i \in 1..Len(s) : CharAt(s, i) \in Digits

RECURSIVE int(_)
\* int(s) for a string of decimal digits
int(s) ==
    IF s = "" THEN 0
    ELSE 10 * int(SubSeq(s, 1, Len(s) - 1)) + DigitValue[CharAt(s, Len(s))]

\* whether int(s) returns: digits with an optional sign (else ValueError)
IntParses(s) ==
    \/ isdigit(s)
    \/ Len(s) >= 2 /\ CharAt(s, 1) \in {"+", "-"} /\ isdigit(SubSeq(s, 2, Len(s)))

\* int(s) with an optional sign
SignedInt(s) ==
    IF isdigit(s) THEN int(s)
    ELSE IF CharAt(s, 1) = "-" THEN 0 - int(SubSeq(s, 2, Len(s)))
    ELSE int(SubSeq(s, 2, Len(s)))

RECURSIVE str(_)
\* str(n) for n >= 0
str(n) ==
    IF n < 10 THEN (IF n = 0 THEN "0" ELSE DigitChar[n])
    ELSE str(n \div 10) \o (IF n % 10 = 0 THEN "0" ELSE DigitChar[n % 10])

\* str.zfill(w)
zfill(s, w) == IF Len(s) >= w THEN s ELSE IF Len(s) + 1 >= w THEN "0" \o s ELSE "00" \o s

\* f"{n:02d}" for n >= 0
Fmt02d(n) == zfill(str(n), 2)

\* f"{n:04d}", strftime's %Y for years 1000..9999
Fmt04d(n) == IF n >= 1000 THEN str(n) ELSE IF n >= 100 THEN "0" \o str(n) ELSE "00" \o Fmt02d(n)

\* str.split(':')
RECURSIVE split_colon(_)
split_colon(s) ==
    LET at == {i \in 1..Len(s) : CharAt(s, i) = ":"}
    IN IF at = {} THEN <<s>>
       ELSE <<SubSeq(s, 1, Min(at) - 1)>> \o split_colon(SubSeq(s, Min(at) + 1, Len(s)))

(***************************************************************************)
(* Regular expressions.  A match is the tuple of its groups, each None or  *)
(* Some(text); no match is the empty tuple.  re.search returns the match   *)
(* at the leftmost position where the pattern matches, quantifiers greedy. *)
(***************************************************************************)
NoMatch == <<>>

\* the end of the run of whitespace that starts at p (what \s* consumes)
SkipWs(s, p) ==
    Min({q \in p..(Len(s) + 1) : q = Len(s) + 1 \/ CharAt(s, q) \notin Whitespace})

\* (am|pm) at position q
AmPmAt(s, q) ==
    IF LitAt(s, q, "am") THEN Some("am")
    ELSE IF LitAt(s, q, "pm") THEN Some("pm")
    ELSE None

\* H:MM at position i with an n-digit hour
HourMinuteAt(s, i, n) ==
    DigitsAt(s, i, n) /\ LitAt(s, i + n, ":") /\ DigitsAt(s, i + n + 1, 2)

\* (\d{1,2}):(\d{2})\s*(am|pm)? at position i
TimeColonAt(s, i) ==
    LET n == IF HourMinuteAt(s, i, 2) THEN 2 ELSE 1
    IN IF HourMinuteAt(s, i, n)
       THEN <<Some(SubSeq(s, i, i + n - 1)),
              Some(SubSeq(s, i + n + 1, i + n + 2)),
              AmPmAt(s, SkipWs(s, i + n + 3))>>
       ELSE NoMatch

\* (\d{1,2})\s*(am|pm) at position i
TimeAmPmAt(s, i) ==
    LET ok(n) == DigitsAt(s, i, n) /\ AmPmAt(s, SkipWs(s, i + n)) # None
        n == IF ok(2) THEN 2 ELSE 1
    IN IF ok(n)
       THEN <<Some(SubSeq(s, i, i + n - 1)), AmPmAt(s, SkipWs(s, i + n))>>
       ELSE NoMatch

\* at\s+(\d{1,2}):(\d{2}) at position i
TimeAtAt(s, i) ==
    LET q == SkipWs(s, i + 2)
        n == IF HourMinuteAt(s, q, 2) THEN 2 ELSE 1
    IN IF LitAt(s, i, "at") /\ q > i + 2 /\ HourMinuteAt(s, q, n)
       THEN <<Some(SubSeq(s, q, q + n - 1)), Some(SubSeq(s, q + n + 1, q + n + 2))>>
       ELSE NoMatch

\* saa\s+(\d{1,2}) at position i
TimeSaaAt(s, i) ==
    LET q == SkipWs(s, i + 3)
        n == IF DigitsAt(s, q, 2) THEN 2 ELSE 1
    IN IF LitAt(s, i, "saa") /\ q > i + 3 /\ DigitsAt(s, q, n)
       THEN <<Some(SubSeq(s, q, q + n - 1))>>
       ELSE NoMatch

\* (\d{1,2})\s*o\'?clock at position i
TimeOclockAt(s, i) ==
    LET ok(n) == /\ DigitsAt(s, i, n)
                 /\ LET q == SkipWs(s, i + n)
                    IN LitAt(s, q, "o'clock") \/ LitAt(s, q, "oclock")
        n == IF ok(2) THEN 2 ELSE 1
    IN IF ok(n) THEN <<Some(SubSeq(s, i, i + n - 1))>> ELSE NoMatch

\* (\d{4})-(\d{1,2})-(\d{1,2}) at position i
DateYmdAt(s, i) ==
    LET ok(n) == /\ DigitsAt(s, i, 4) /\ LitAt(s, i + 4, "-")
                 /\ DigitsAt(s, i + 5, n) /\ LitAt(s, i + 5 + n, "-")
                 /\ DigitsAt(s, i + 6 + n, 1)
        n == IF ok(2) THEN 2 ELSE 1
        k == IF DigitsAt(s, i + 6 + n, 2) THEN 2 ELSE 1
    IN IF ok(n)
       THEN <<Some(SubSeq(s, i, i + 3)),
              Some(SubSeq(s, i + 5, i + 4 + n)),
              Some(SubSeq(s, i + 6 + n, i + 5 + n + k))>>
       ELSE NoMatch

\* (\d{1,2})<sep>(\d{1,2})<sep>(\d{4}) at position i, <sep> one character
DateMdyAt(s, i, sep) ==
    LET ok(n, k) == /\ DigitsAt(s, i, n) /\ LitAt(s, i + n, sep)
                    /\ DigitsAt(s, i + n + 1, k) /\ LitAt(s, i + n + 1 + k, sep)
                    /\ DigitsAt(s, i + n + 2 + k, 4)
        \* greedy: the longest first group that lets the rest match, then
        \* the longest second group
        fits == {nk \in {<<2, 2>>, <<2, 1>>, <<1, 2>>, <<1, 1>>} : ok(nk[1], nk[2])}
        pick == CHOOSE nk \in fits :
                    \A o \in fits : nk[1] > o[1] \/ (nk[1] = o[1] /\ nk[2] >= o[2])
    IN IF fits # {}
       THEN <<Some(SubSeq(s, i, i + pick[1] - 1)),
              Some(SubSeq(s, i + pick[1] + 1, i + pick[1] + pick[2])),
              Some(SubSeq(s, i + pick[1] + pick[2] + 2, i + pick[1] + pick[2] + 5))>>
       ELSE NoMatch

time_patterns ==
    <<"(\\d{1,2}):(\\d{2})\\s*(am|pm)?",
      "(\\d{1,2})\\s*(am|pm)",
      "at\\s+(\\d{1,2}):(\\d{2})",
      "saa\\s+(\\d{1,2})",
      "(\\d{1,2})\\s*o\\'?clock">>

date_patterns ==
    <<"(\\d{4})-(\\d{1,2})-(\\d{1,2})",
      "(\\d{1,2})/(\\d{1,2})/(\\d{4})",
      "(\\d{1,2})-(\\d{1,2})-(\\d{4})">>

\* the match of `pattern` that starts at position i, or NoMatch
MatchAt(pattern, s, i) ==
    CASE pattern = time_patterns[1] -> TimeColonAt(s, i)
      [] pattern = time_patterns[2] -> TimeAmPmAt(s, i)
      [] pattern = time_patterns[3] -> TimeAtAt(s, i)
      [] pattern = time_patterns[4] -> TimeSaaAt(s, i)
      [] pattern = time_patterns[5] -> TimeOclockAt(s, i)
      [] pattern = date_patterns[1] -> DateYmdAt(s, i)
      [] pattern = date_patterns[2] -> DateMdyAt(s, i, "/")
      [] pattern = date_patterns[3] -> DateMdyAt(s, i, "-")

\* re.search(pattern, s)
re_search(pattern, s) ==
    LET hits == {i \in 1..Len(s) : MatchAt(pattern, s, i) # NoMatch}
    IN IF hits = {} THEN NoMatch ELSE MatchAt(pattern, s, Min(hits))

\* the value of the first entry <<keyword, value>> of an ordered table whose
\* keyword occurs in the text, or None (a loop over dict.items() that returns
\* at the first hit)
FirstHit(text_lower, table) ==
    LET hits == {n \in DOMAIN table : Contains(text_lower, table[n][1])}
    IN IF hits = {} THEN None ELSE Some(table[Min(hits)][2])

(***************************************************************************)
(* Calendar dates: datetime, timedelta(days=1), strftime, toordinal.       *)
(***************************************************************************)
DayNames ==
    <<"Monday", "Tuesday", "Wednesday", "Thursday", "Friday", "Saturday", "Sunday">>

IsLeap(y) == (y % 4 = 0 /\ y % 100 # 0) \/ y % 400 = 0

DaysInMonth(y, m) ==
    IF m = 2 THEN (IF IsLeap(y) THEN 29 ELSE 28)
    ELSE IF m \in {4, 6, 9, 11} THEN 30 ELSE 31

RECURSIVE DaysBeforeMonth(_, _)
DaysBeforeMonth(y, m) ==
    IF m = 1 THEN 0 ELSE DaysBeforeMonth(y, m - 1) + DaysInMonth(y, m - 1)

\* date.toordinal(): day 1 is 0001-01-01
toordinal(d) ==
    LET y == d.year - 1
    IN 365 * y + (y \div 4) - (y \div 100) + (y \div 400)
           + DaysBeforeMonth(d.year, d.month) + d.day

\* date.weekday(): Monday is 0
weekday(d) == (toordinal(d) + 6) % 7

\* d + timedelta(days=1)
NextDay(d) ==
    IF d.day < DaysInMonth(d.year, d.month) THEN [d EXCEPT !.day = d.day + 1]
    ELSE IF d.month < 12 THEN [year |-> d.year, month |-> d.month + 1, day |-> 1]
    ELSE [year |-> d.year + 1, month |-> 1, day |-> 1]

\* d - timedelta(days=1)
PrevDay(d) ==
    IF d.day > 1 THEN [d EXCEPT !.day = d.day - 1]
    ELSE IF d.month > 1
         THEN [year |-> d.year, month |-> d.month - 1,
               day |-> DaysInMonth(d.year, d.month - 1)]
    ELSE [year |-> d.year - 1, month |-> 12, day |-> 31]

\* d.strftime('%A')
strftime_A(d) == DayNames[weekday(d) + 1]

\* d.strftime('%Y-%m-%d')
strftime_Ymd(d) == Fmt04d(d.year) \o "-" \o Fmt02d(d.month) \o "-" \o Fmt02d(d.day)

(***************************************************************************)
(* NLPProcessor                                                            *)
(***************************************************************************)
detect_language_keywords ==
    <<"je", "saa", "jumamosi", "jumapili", "jumatatu", "jumanne", "jumatano",
      "alhamisi", "ijumaa", "abiria", "basi", "leo", "kesho", "jana",
      "mchana", "usiku", "asubuhi", "jioni", "mvua", "jua", "baridi",
      "ni", "kuna", "ngapi", "idadi", "watu", "wengi", "wachache",
      "ninaweza", "naomba", "tafadhali", "samahani", "karibu">>

\* a language test that counts a keyword only where it stands as a word of
\* its own
detect_language_by_words(text) ==
    LET padded == " " \o lower(text) \o " "
        swahili_count ==
            Cardinality({n \in DOMAIN detect_language_keywords :
                            Contains(padded, " " \o detect_language_keywords[n] \o " ")})
    IN IF swahili_count > 0 THEN "Swahili" ELSE "English"

detect_language(text) ==
    LET text_lower == lower(text)
        swahili_count ==
            Cardinality({n \in DOMAIN detect_language_keywords :
                            Contains(text_lower, detect_language_keywords[n])})
    IN IF swahili_count > 0 THEN "Swahili" ELSE "English"

english_keywords ==
    <<"passenger", "passengers", "people", "crowd", "crowded", "busy",
      "how many", "predict", "forecast", "expect", "anticipate",
      "will there be", "going to be", "travel time", "best time",
      "when to travel", "avoid crowds", "less crowded", "peak", "rush">>

swahili_keywords ==
    <<"abiria", "watu", "idadi", "ngapi", "wengi", "wachache",
      "msongamano", "kujaa", "tupu", "wakati", "bora", "mzuri",
      "kusafiri", "basi", "gari", "hatua">>

time_indicators ==
    <<"monday", "tuesday", "wednesday", "thursday", "friday", "saturday", "sunday",
      "jumatatu", "jumanne", "jumatano", "alhamisi", "ijumaa", "jumamosi", "jumapili",
      "morning", "afternoon", "evening", "night", "asubuhi", "mchana", "jioni", "usiku",
      "today", "tomorrow", "yesterday", "leo", "kesho", "jana",
      "am", "pm", "o'clock", "saa", ":",
      "1", "2", "3", "4", "5", "6", "7", "8", "9", "10", "11", "12">>

\* an intent test that also takes every word of the named-time table and a
\* zero for a time indicator
is_prediction_request_any_time_word(text) ==
    LET text_lower == lower(text)
    IN \/ ContainsAny(text_lower, english_keywords \o swahili_keywords)
       \/ ContainsAny(text_lower, time_indicators \o <<"noon", "dawn", "dusk", "0">>)

is_prediction_request(text) ==
    LET text_lower == lower(text)
        has_prediction_keyword ==
            ContainsAny(text_lower, english_keywords \o swahili_keywords)
        has_time_indicator == ContainsAny(text_lower, time_indicators)
    IN has_prediction_keyword \/ has_time_indicator

named_times ==
    <<<<"morning", "08:00">>, <<"afternoon", "14:00">>, <<"evening", "18:00">>,
      <<"night", "20:00">>, <<"noon", "12:00">>, <<"midnight", "00:00">>,
      <<"dawn", "06:00">>, <<"dusk", "19:00">>, <<"asubuhi", "08:00">>,
      <<"mchana", "12:00">>, <<"jioni", "18:00">>, <<"usiku", "20:00">>>>

\* the AM/PM handling of extract_time_from_text
To24Hour(hour, marker) ==
    IF marker = "pm" /\ hour # 12 THEN hour + 12
    ELSE IF marker = "am" /\ hour = 12 THEN 0
    ELSE hour

\* the body of the `for pattern in time_patterns` loop once a pattern matched
TimeOfMatch(match) ==
    LET hour == int(match[1][1])
        minute == IF Len(match) > 1 /\ match[2] # None /\ isdigit(match[2][1])
                  THEN int(match[2][1]) ELSE 0
    IN Fmt02d(IF Len(match) > 2 /\ match[3] # None
              THEN To24Hour(hour, lower(match[3][1])) ELSE hour)
           \o ":" \o Fmt02d(minute)

\* the index of the last pattern of an ordered list that matches the text,
\* 0 if none does
SearchLast(patterns, text_lower) ==
    LET matching == {n \in DOMAIN patterns : re_search(patterns[n], text_lower) # NoMatch}
    IN IF matching = {} THEN 0
       ELSE CHOOSE n \in matching : \A m \in matching : m <= n

\* the index of the first pattern of an ordered list that matches the
\* text, 0 if none does
SearchFirst(patterns, text_lower) ==
    LET matching == {n \in DOMAIN patterns : re_search(patterns[n], text_lower) # NoMatch}
    IN IF matching = {} THEN 0 ELSE Min(matching)

\* the named time found, or noon when there is none
NamedTimeOrNoon(hit) == IF hit # None THEN hit[1] ELSE "12:00"

\* the named time found, or the default
NamedTime(hit) == IF hit # None THEN hit[1] ELSE "08:00"

\* The loop over time_patterns and what follows it: n is the index of the
\* first pattern that matches, 0 if none does.
TimeFor(text_lower, n) ==
    IF n # 0 THEN TimeOfMatch(re_search(time_patterns[n], text_lower))
    ELSE NamedTime(FirstHit(text_lower, named_times))

extract_time_from_text(text) ==
    TimeFor(lower(text), SearchFirst(time_patterns, lower(text)))

english_days ==
    <<<<"monday", "Monday">>, <<"tuesday", "Tuesday">>, <<"wednesday", "Wednesday">>,
      <<"thursday", "Thursday">>, <<"friday", "Friday">>, <<"saturday", "Saturday">>,
      <<"sunday", "Sunday">>>>

swahili_days ==
    <<<<"jumatatu", "Monday">>, <<"jumanne", "Tuesday">>, <<"jumatano", "Wednesday">>,
      <<"alhamisi", "Thursday">>, <<"ijumaa", "Friday">>, <<"jumamosi", "Saturday">>,
      <<"jumapili", "Sunday">>>>

\* a day extractor that looks for the relative terms before the day names
extract_day_relative_first(text, today) ==
    LET text_lower == lower(text)
        eng == FirstHit(text_lower, english_days)
        swa == FirstHit(text_lower, swahili_days)
    IN IF Contains(text_lower, "today") \/ Contains(text_lower, "leo")
       THEN strftime_A(today)
       ELSE IF Contains(text_lower, "tomorrow") \/ Contains(text_lower, "kesho")
            THEN strftime_A(NextDay(today))
       ELSE IF Contains(text_lower, "yesterday") \/ Contains(text_lower, "jana")
            THEN strftime_A(PrevDay(today))
       ELSE IF eng # None THEN eng[1]
       ELSE IF swa # None THEN swa[1]
       ELSE strftime_A(today)

\* `today` is what datetime.now() returns when the extractor reads it
extract_day_from_text(text, today) ==
    LET text_lower == lower(text)
        eng == FirstHit(text_lower, english_days)
        swa == FirstHit(text_lower, swahili_days)
    IN IF eng # None THEN eng[1]
       ELSE IF swa # None THEN swa[1]
       ELSE IF Contains(text_lower, "today") \/ Contains(text_lower, "leo")
            THEN strftime_A(today)
       ELSE IF Contains(text_lower, "tomorrow") \/ Contains(text_lower, "kesho")
            THEN strftime_A(NextDay(today))
       ELSE IF Contains(text_lower, "yesterday") \/ Contains(text_lower, "jana")
            THEN strftime_A(PrevDay(today))
       ELSE strftime_A(today)

weather_keywords ==
    <<<<"sunny", "Sunny">>, <<"rain", "Rainy">>, <<"rainy", "Rainy">>,
      <<"cloudy", "Cloudy">>, <<"clear", "Sunny">>, <<"storm", "Rainy">>,
      <<"drizzle", "Rainy">>, <<"mvua", "Rainy">>, <<"jua", "Sunny">>,
      <<"mawingo", "Cloudy">>>>

\* the extractor returning the weather word as the text wrote it
extract_weather_as_written(text) ==
    LET hit == FirstHit(lower(text), weather_keywords)
    IN IF hit # None THEN lower(hit[1]) ELSE "Sunny"

extract_weather_from_text(text) ==
    LET hit == FirstHit(lower(text), weather_keywords)
    IN IF hit # None THEN hit[1] ELSE "Sunny"

\* the date string the loop over date_patterns returns for a match
\* the date of a match read day first in the MM/DD/YYYY and MM-DD-YYYY
\* families: day from the first group, month from the second
DateOfMatchDayFirst(pattern, match) ==
    IF pattern = date_patterns[1]
    THEN match[1][1] \o "-" \o zfill(match[2][1], 2) \o "-" \o zfill(match[3][1], 2)
    ELSE match[3][1] \o "-" \o zfill(match[2][1], 2) \o "-" \o zfill(match[1][1], 2)

DateOfMatch(pattern, match) ==
    IF pattern = date_patterns[1]
    THEN match[1][1] \o "-" \o zfill(match[2][1], 2) \o "-" \o zfill(match[3][1], 2)
    ELSE match[3][1] \o "-" \o zfill(match[1][1], 2) \o "-" \o zfill(match[2][1], 2)

\* the relative dates and the default of extract_date_from_text
RelativeDate(text_lower, today) ==
    IF Contains(text_lower, "today") \/ Contains(text_lower, "leo")
    THEN strftime_Ymd(today)
    ELSE IF Contains(text_lower, "tomorrow") \/ Contains(text_lower, "kesho")
         THEN strftime_Ymd(NextDay(today))
    ELSE IF Contains(text_lower, "yesterday") \/ Contains(text_lower, "jana")
         THEN strftime_Ymd(PrevDay(today))
    ELSE strftime_Ymd(today)

\* The loop over date_patterns and what follows it: n is the index of the
\* first pattern that matches, 0 if none does.
DateFor(text_lower, n, today) ==
    IF n # 0
    THEN DateOfMatch(date_patterns[n], re_search(date_patterns[n], text_lower))
    ELSE RelativeDate(text_lower, today)

\* `today` is what datetime.now() returns when the extractor reads it
extract_date_from_text(text, today) ==
    DateFor(lower(text), SearchFirst(date_patterns, lower(text)), today)

\* the peak windows taken half open: 7 <= hour < 9 and 17 <= hour < 19
is_peak_hours_half_open(time_str) ==
    LET hour == int(split_colon(time_str)[1])
    IN IF (7 <= hour /\ hour < 9) \/ (17 <= hour /\ hour < 19) THEN "Yes" ELSE "No"

is_peak_hours(time_str) ==
    LET hour == int(split_colon(time_str)[1])
    IN IF (7 <= hour /\ hour <= 9) \/ (17 <= hour /\ hour <= 19) THEN "Yes" ELSE "No"

\* generate.py, generate_dataset: the peak_hours label of the time slot
\* `time` ("HH:MM:00") in the generated training data
generator_is_peak(time) ==
    LET hour == int(SubSeq(time, 1, 2))
    IN (6 <= hour /\ hour < 9) \/ (16 <= hour /\ hour < 19)

is_weekend(day) == IF day \in {"Saturday", "Sunday"} THEN "Yes" ELSE "No"

holiday_keywords == <<"holiday", "christmas", "new year", "easter", "sikukuu">>

\* a holiday test that also looks at the date the text names
is_holiday_by_date(text) ==
    IF ContainsAny(lower(text), holiday_keywords \o <<"12-25", "01-01">>)
    THEN "Yes" ELSE "No"

is_holiday_from_text(text) ==
    IF ContainsAny(lower(text), holiday_keywords) THEN "Yes" ELSE "No"

\* the record extract_structured_data returns from what the extractors found
StructuredQuery(date_str, time_str, day, weather, holidays) ==
    [date |-> date_str, time |-> time_str, day |-> day, weather |-> weather,
     peak_hours |-> is_peak_hours(time_str), weekends |-> is_weekend(day),
     holidays |-> holidays]

\* The try block of extract_structured_data.  The date extractor reads the
\* clock first (today_date), the day extractor afterwards (today_day).
ExtractNormal(prompt, today_date, today_day) ==
    StructuredQuery(extract_date_from_text(prompt, today_date),
                    extract_time_from_text(prompt),
                    extract_day_from_text(prompt, today_day),
                    extract_weather_from_text(prompt),
                    is_holiday_from_text(prompt))

\* the safe defaults with only Sunday taken for the weekend
ExtractDefaultsSundayOnly(today) ==
    [date |-> strftime_Ymd(today), time |-> "08:00", day |-> strftime_A(today),
     weather |-> "Sunny", peak_hours |-> "No",
     weekends |-> IF weekday(today) >= 6 THEN "Yes" ELSE "No",
     holidays |-> "No"]

\* The except block of extract_structured_data: the safe defaults.
ExtractDefaults(today) ==
    [date |-> strftime_Ymd(today), time |-> "08:00", day |-> strftime_A(today),
     weather |-> "Sunny", peak_hours |-> "No",
     weekends |-> IF weekday(today) >= 5 THEN "Yes" ELSE "No",
     holidays |-> "No"]

\* extract_structured_data(prompt): `fault` says whether an extractor raised;
\* the clock reads are today_date, today_day and, in the except block,
\* today_except.
\* an extractor that keeps its last record in a process-wide variable and
\* hands it out again while the record of another request is still there
extract_structured_data_remembering(prompt, fault, today_date, today_day, today_except) ==
    IF \E t \in DOMAIN response : response[t].kind = "json"
    THEN response[CHOOSE t \in DOMAIN response : response[t].kind = "json"].json.extracted_data
    ELSE ExtractNormal(prompt, today_date, today_day)

extract_structured_data(prompt, fault, today_date, today_day, today_except) ==
    IF fault THEN ExtractDefaults(today_except)
    ELSE ExtractNormal(prompt, today_date, today_day)

(***************************************************************************)
(* The encoders (LabelEncoder.fit sorts its labels: classes_ is the sorted *)
(* vocabulary and the code of a label is its index in classes_).           *)
(***************************************************************************)
day_encoder ==
    <<"Friday", "Monday", "Saturday", "Sunday", "Thursday", "Tuesday", "Wednesday">>

weather_encoder == <<"Cloudy", "Rainy", "Sunny">>

peak_hours_encoder == <<"No", "Yes">>

weekends_encoder == <<"No", "Yes">>

holidays_encoder == <<"No", "Yes">>

\* the module globals as the start-up code leaves them; the model is the
\* booster loaded from xgboost_model.ubj
LoadedAtStartup ==
    [model |-> "xgboost_model.ubj",
     encoders |-> [day |-> day_encoder, weather |-> weather_encoder,
                   peak_hours |-> peak_hours_encoder, weekends |-> weekends_encoder,
                   holidays |-> holidays_encoder],
     training_feature_order |->
        <<"day", "weather", "time_value", "peak_hours", "weekends", "holidays",
          "date_ordinal">>]

\* the global `encoders`, as a function reads it when it runs
encoders == loaded.encoders

\* an encoder that gives a label it has not seen the code 0
transform_defaulting(classes, label) ==
    IF \E n \in DOMAIN classes : classes[n] = label
    THEN Some((CHOOSE n \in DOMAIN classes : classes[n] = label) - 1)
    ELSE Some(0)

\* encoder.transform([label])[0]: the code of the label, or None where
\* transform raises ValueError (a label it has not seen)
\* transform numbering the weather labels in the order they were given to
\* fit (Rainy, Sunny, Cloudy) instead of the sorted order of classes_
transform_fit_order(classes, label) ==
    IF label \in {"Rainy", "Sunny", "Cloudy"}
    THEN Some((CHOOSE n \in 1..3 : <<"Rainy", "Sunny", "Cloudy">>[n] = label) - 1)
    ELSE IF \E n \in DOMAIN classes : classes[n] = label
    THEN Some((CHOOSE n \in DOMAIN classes : classes[n] = label) - 1)
    ELSE None

transform(classes, label) ==
    IF \E n \in DOMAIN classes : classes[n] = label
    THEN Some((CHOOSE n \in DOMAIN classes : classes[n] = label) - 1)
    ELSE None

\* LabelEncoder.inverse_transform([code])[0]: classes_[code]; ValueError
\* (None) for a code that is not one of 0..len(classes_)-1
inverse_transform(classes, code) ==
    IF code + 1 \in DOMAIN classes THEN Some(classes[code + 1]) ELSE None

\* the global `training_feature_order`, as a function reads it when it runs
training_feature_order == loaded.training_feature_order

(***************************************************************************)
(* XGBoostPredictor                                                        *)
(***************************************************************************)
\* Whether pd.to_datetime(s) returns, for the date strings of this model
\* (yyyy-mm-dd, where a month above 12 comes with a day above 12): s is a
\* calendar date inside the range of Timestamp (1677-09-22 .. 2262-04-11).
DateParses(s) ==
    /\ Len(s) = 10
    /\ DigitsAt(s, 1, 4) /\ LitAt(s, 5, "-") /\ DigitsAt(s, 6, 2)
    /\ LitAt(s, 8, "-") /\ DigitsAt(s, 9, 2)
    /\ LET y == int(SubSeq(s, 1, 4))
           m == int(SubSeq(s, 6, 7))
           d == int(SubSeq(s, 9, 10))
       IN /\ m \in 1..12
          /\ d \in 1..DaysInMonth(y, m)
          /\ y * 10000 + m * 100 + d >= 16770922
          /\ y * 10000 + m * 100 + d <= 22620411

\* pd.to_datetime(s) where it returns
to_datetime(s) ==
    [year |-> int(SubSeq(s, 1, 4)), month |-> int(SubSeq(s, 6, 7)),
     day |-> int(SubSeq(s, 9, 10))]

\* whether int(time_parts[0]) * 60 + int(time_parts[1]) evaluates
TimeParses(s) ==
    LET time_parts == split_colon(s)
    IN Len(time_parts) >= 2 /\ IntParses(time_parts[1]) /\ IntParses(time_parts[2])

\* int(time_parts[0]) * 60 + int(time_parts[1])
TimeMinutes(s) ==
    LET time_parts == split_colon(s)
    IN SignedInt(time_parts[1]) * 60 + SignedInt(time_parts[2])

\* The columns of the DataFrame of predict_passengers in the order the dict
\* literal builds them, each <<name, value>>.
InputColumns(structured_data) ==
    <<<<"date_ordinal", toordinal(to_datetime(structured_data.date))>>,
      <<"time_value", TimeMinutes(structured_data.time)>>,
      <<"day", transform(encoders.day, structured_data.day)[1]>>,
      <<"weather", transform(encoders.weather, structured_data.weather)[1]>>,
      <<"peak_hours", transform(encoders.peak_hours, structured_data.peak_hours)[1]>>,
      <<"weekends", transform(encoders.weekends, structured_data.weekends)[1]>>,
      <<"holidays", transform(encoders.holidays, structured_data.holidays)[1]>>>>

\* frame[order]: the columns selected by name, in the order of `order`
Reindex(columns, order) ==
    [n \in DOMAIN order |->
        columns[CHOOSE k \in DOMAIN columns : columns[k][1] = order[n]][2]]

\* the row with the columns left in the order the frame was built in
FeatureVectorAsBuilt(structured_data) ==
    [n \in DOMAIN InputColumns(structured_data) |-> InputColumns(structured_data)[n][2]]

\* the row handed to model.predict
FeatureVector(structured_data) ==
    Reindex(InputColumns(structured_data), training_feature_order)

\* The first exception the try block of predict_passengers raises before it
\* calls the model, or "none".
AssemblyError(structured_data) ==
    IF ~DateParses(structured_data.date) THEN "DateParseError"
    ELSE IF ~TimeParses(structured_data.time) THEN "TimeParseError"
    ELSE IF \/ transform(encoders.day, structured_data.day) = None
            \/ transform(encoders.weather, structured_data.weather) = None
            \/ transform(encoders.peak_hours, structured_data.peak_hours) = None
            \/ transform(encoders.weekends, structured_data.weekends) = None
            \/ transform(encoders.holidays, structured_data.holidays) = None
         THEN "EncodingError"
    ELSE "none"

\* Python's round() of a number given in tenths: half to even
round(tenths) ==
    LET q == tenths \div 10
        r == tenths % 10
    IN IF r < 5 THEN q
       ELSE IF r > 5 THEN q + 1
       ELSE IF q % 2 = 0 THEN q ELSE q + 1

FallbackPrediction == 43

\* predict_passengers(structured_data).  `outcome` is what model.predict
\* does if it is called: it raises, or returns a number (in tenths).
\* Returns the prediction, the vectors given to the model and the exceptions
\* raised (and caught) on the way.
predict_passengers(structured_data, outcome) ==
    LET err == AssemblyError(structured_data)
    IN IF err # "none"
       THEN [prediction |-> FallbackPrediction, model_input |-> <<>>,
             raised |-> <<err>>]
       ELSE IF outcome.raises
       THEN [prediction |-> FallbackPrediction,
             model_input |-> <<FeatureVector(structured_data)>>,
             raised |-> <<"ModelError">>]
       ELSE [prediction |-> round(outcome.tenths),
             model_input |-> <<FeatureVector(structured_data)>>,
             raised |-> <<>>]

(***************************************************************************)
(* ConversationalResponseGenerator.  A reply is the record of the template *)
(* chosen and of what is filled into it.                                   *)
(***************************************************************************)
get_crowding_insights(prediction, language) ==
    IF language = "Swahili"
    THEN (IF prediction < 20 THEN "kidogo sana"
          ELSE IF prediction < 35 THEN "kidogo"
          ELSE IF prediction < 50 THEN "wastani"
          ELSE IF prediction < 65 THEN "wastani juu"
          ELSE "msongamano")
    ELSE (IF prediction < 20 THEN "very low"
          ELSE IF prediction < 35 THEN "low"
          ELSE IF prediction < 50 THEN "moderate"
          ELSE IF prediction < 65 THEN "moderately high"
          ELSE "high")

swahili_day_display ==
    [Monday |-> "Jumatatu", Tuesday |-> "Jumanne", Wednesday |-> "Jumatano",
     Thursday |-> "Alhamisi", Friday |-> "Ijumaa", Saturday |-> "Jumamosi",
     Sunday |-> "Jumapili"]

time_display(time_str, language) ==
    LET hour == int(split_colon(time_str)[1])
        minute == int(split_colon(time_str)[2])
    IN IF language = "Swahili"
       THEN (IF hour = 0 THEN "usiku wa manane (" \o time_str \o ")"
             ELSE IF hour < 12 THEN "saa " \o str(hour) \o ":" \o Fmt02d(minute) \o " asubuhi"
             ELSE IF hour = 12 THEN "saa 12:" \o Fmt02d(minute) \o " mchana"
             ELSE "saa " \o str(hour - 12) \o ":" \o Fmt02d(minute) \o " jioni")
       ELSE (IF hour = 0 THEN "midnight (" \o time_str \o ")"
             ELSE IF hour < 12 THEN str(hour) \o ":" \o Fmt02d(minute) \o " AM"
             ELSE IF hour = 12 THEN "12:" \o Fmt02d(minute) \o " PM"
             ELSE str(hour - 12) \o ":" \o Fmt02d(minute) \o " PM")

generate_prediction_response(prediction, structured_data, language) ==
    [template |-> "prediction", language |-> language,
     day |-> IF language = "Swahili" /\ structured_data.day \in DOMAIN swahili_day_display
             THEN swahili_day_display[structured_data.day] ELSE structured_data.day,
     time |-> time_display(structured_data.time, language),
     weather |-> structured_data.weather,
     prediction |-> prediction,
     level |-> get_crowding_insights(prediction, language),
     peak_note |-> structured_data.peak_hours = "Yes"]

\* random.choice(greetings[language]): `variant` is the index drawn
generate_greeting_response(language, variant) ==
    [template |-> "greeting", language |-> language, variant |-> variant]

\* random.choice(responses[language]): `variant` is the index drawn
generate_thank_you_response(language, variant) ==
    [template |-> "thank_you", language |-> language, variant |-> variant]

generate_fallback_response(language) ==
    [template |-> "fallback", language |-> language]

\* the apology of the except block of predict_from_prompt
error_response(language) == [template |-> "apology", language |-> language]

(***************************************************************************)
(* The API endpoints                                                       *)
(***************************************************************************)
greetings ==
    <<"hello", "hi", "hey", "good morning", "good afternoon", "good evening",
      "how are you", "how do you do", "what's up", "howdy", "greetings",
      "introduce yourself", "who are you", "what are you", "what can you do",
      "habari", "mambo", "hujambo", "salamu", "shikamoo", "vipi", "sasa">>

thank_you_phrases ==
    <<"thank you", "thanks", "thank u", "thanku", "thx", "ty",
      "appreciate", "grateful", "nice", "good job", "well done",
      "awesome", "great", "perfect", "excellent", "amazing",
      "asante", "shukran", "gracias", "merci", "asanteni">>

required_fields ==
    <<"date", "time", "day", "weather", "peak_hours", "weekends", "holidays">>

\* {} in a response
EmptyDict == <<>>

\* jsonify(obj), status: the response object the caller receives
Json(status, obj) == [kind |-> "json", status |-> status, json |-> obj]

\* an exception that leaves the view function: no response object is built
Unhandled(exception) == [kind |-> "unhandled", exception |-> exception]

\* the checks without `if not prompt`
PromptCheckWithoutEmpty(body) ==
    IF body.kind = "malformed" THEN "BadRequest"
    ELSE IF body.kind = "null" \/ body.ptype = "missing" THEN "no_prompt"
    ELSE IF body.ptype # "string" THEN "AttributeError"
    ELSE "ok"

\* What get_json() and the checks on the prompt do with a body, for the two
\* endpoints that take a prompt: "BadRequest" (get_json raises),
\* "no_prompt", "AttributeError" (.strip() of a non-string), "empty", "ok".
PromptCheck(body) ==
    IF body.kind = "malformed" THEN "BadRequest"
    ELSE IF body.kind = "null" \/ body.ptype = "missing" THEN "no_prompt"
    ELSE IF body.ptype # "string" THEN "AttributeError"
    ELSE IF strip(body.text) = "" THEN "empty"
    ELSE "ok"

\* the chain with prediction intent tested before the two phrase lists
MessageTypeIntentFirst(prompt) ==
    LET prompt_lower == lower(prompt)
    IN IF is_prediction_request(prompt) THEN "prediction"
       ELSE IF ContainsAny(prompt_lower, greetings) THEN "greeting"
       ELSE IF ContainsAny(prompt_lower, thank_you_phrases) THEN "thank_you"
       ELSE "fallback"

\* The if / elif chain of predict_from_prompt over a non-empty prompt.
MessageType(prompt) ==
    LET prompt_lower == lower(prompt)
    IN IF ContainsAny(prompt_lower, greetings) THEN "greeting"
       ELSE IF ContainsAny(prompt_lower, thank_you_phrases) THEN "thank_you"
       ELSE IF is_prediction_request(prompt) THEN "prediction"
       ELSE "fallback"

\* the except block without the `'prompt' in locals()` guard: reading the
\* unbound name raises NameError
ExceptLanguageUnguarded(prompt) ==
    IF prompt # None THEN Some(detect_language(prompt[1])) ELSE None

\* `language = detect_language(prompt) if 'prompt' in locals() else 'English'`
\* of the except block: prompt is None while the name is unbound.  The
\* result is None if evaluating it raises.
ExceptLanguage(prompt) ==
    IF prompt # None THEN Some(detect_language(prompt[1])) ELSE Some("English")

\* The except block of predict_from_prompt, entered with `exception`.
PredictFromPromptExcept(prompt, exception) ==
    LET language == ExceptLanguage(prompt)
    IN IF language = None THEN Unhandled("NameError")
       ELSE Json(500, [predicted_passengers |-> 0,
                       response |-> error_response(language[1]),
                       extracted_data |-> EmptyDict,
                       language_detected |-> language[1],
                       message_type |-> "error",
                       error |-> "Prediction failed: " \o exception])

\* the response of a branch of predict_from_prompt that predicts nothing
\* a reply without prediction that reports the fallback prediction
PlainReplyWithFallbackPrediction(language, message_type, text) ==
    Json(200, [predicted_passengers |-> FallbackPrediction, response |-> text,
               extracted_data |-> EmptyDict, language_detected |-> language,
               message_type |-> message_type])

PlainReply(language, message_type, text) ==
    Json(200, [predicted_passengers |-> 0, response |-> text,
               extracted_data |-> EmptyDict, language_detected |-> language,
               message_type |-> message_type])

\* the first required field the data lacks, or None
FirstMissing(missing) ==
    LET at == {n \in DOMAIN required_fields : required_fields[n] \in missing}
    IN IF at = {} THEN None ELSE Some(required_fields[Min(at)])

\* the crowding level of predict_structured
StructuredLevel(prediction) ==
    IF prediction < 30 THEN "low" ELSE IF prediction < 60 THEN "moderate" ELSE "high"

(***************************************************************************)
(* The requests, the clock and the faults the model draws from.            *)
(***************************************************************************)
\* the longest prompt text sent
MaxPromptLen == 17

\* the number of days the service clock runs through
NumDays == 2

\* the first day of the clock: Friday 2025-02-28
FirstDay == [year |-> 2025, month |-> 2, day |-> 28]

RECURSIVE DaysFrom(_, _)
DaysFrom(d, n) == IF n = 0 THEN {} ELSE {d} \cup DaysFrom(NextDay(d), n - 1)

ClockDays == DaysFrom(FirstDay, NumDays)

\* the phrases prompts are made of
Lexicon ==
    {"hello", "this", "Thanks", "busy", "ok",
     "Monday", "jumamosi", "kesho", "jana", "today",
     "8:30 pm", "25:99", "13:00 pm", "99:00 pm", "5 pm", "12 AM", "at 7:15",
     "saa 3", "9 o'clock", "midnight", "afternoon", "dusk",
     "2025-12-25", "2025-13-45", "99/99/2025", "3-1-2025",
     "rain", "cloudy", "easter", "christmas", "sikukuu"}

\* the phrases a two-phrase prompt starts with
Leads == {"hello", "Thanks", "busy", "kesho", "5 pm", "easter"}

\* one phrase, or a leading phrase, a space and a phrase, and texts that
\* are empty, blank or padded with whitespace
PromptTexts ==
    {"", "  ", " \t\n", " 7 pm\n", "1/2/2025 2024-3-4"}
        \cup {t \in Lexicon \cup {a \o " " \o b : a \in Leads, b \in Lexicon} :
                Len(t) <= MaxPromptLen}

\* the bodies sent to /predict-from-prompt and /extract-data: not JSON,
\* JSON null, an object without "prompt", and objects whose "prompt" is a
\* number, null or a string
PromptBodies ==
    {[kind |-> "malformed", ptype |-> "missing", text |-> ""],
     [kind |-> "null", ptype |-> "missing", text |-> ""],
     [kind |-> "object", ptype |-> "missing", text |-> ""],
     [kind |-> "object", ptype |-> "number", text |-> ""],
     [kind |-> "object", ptype |-> "null", text |-> ""]}
        \cup {[kind |-> "object", ptype |-> "string", text |-> t] : t \in PromptTexts}

\* the field values sent to /predict-structured
StructuredData ==
    [date : {"2024-02-29", "2025-13-45"},
     time : {"08:30", "7:05", "0830"},
     day : {"Saturday", "monday"},
     weather : {"Cloudy", "sunny"},
     peak_hours : {"Yes", "yes"},
     weekends : {"Yes", "No"},
     holidays : {"No", "True"}]

\* the bodies sent to /predict-structured: not JSON, JSON null, objects
\* that lack one required field, and complete objects
StructuredBodies ==
    {[kind |-> "malformed", missing |-> {}, data |-> EmptyDict],
     [kind |-> "null", missing |-> {}, data |-> EmptyDict]}
        \cup {[kind |-> "object", missing |-> {required_fields[n]}, data |-> EmptyDict] :
                n \in DOMAIN required_fields}
        \cup {[kind |-> "object", missing |-> {}, data |-> d] : d \in StructuredData}

\* what model.predict does when called: it raises, or returns a number of
\* passengers (given in tenths)
ModelOutcomes ==
    {[raises |-> TRUE, tenths |-> 0]}
        \cup {[raises |-> FALSE, tenths |-> t] : t \in {124, 575}}

NoRequest == [endpoint |-> "none"]

NoResponse == [kind |-> "none"]

(***************************************************************************)
(* The state machine                                                       *)
(***************************************************************************)
Init ==
    /\ now = FirstDay
    /\ pc = "idle"
    /\ request = NoRequest
    /\ response = NoResponse
    /\ calls = <<>>
    /\ model_input = <<>>
    /\ raised = <<>>
    /\ loaded = LoadedAtStartup

\* midnight passes while the service is idle
Tick ==
    /\ pc = "idle"
    /\ NextDay(now) \in ClockDays
    /\ now' = NextDay(now)
    /\ UNCHANGED <<pc, request, response, calls, model_input, raised, loaded>>

\* a request arrives
Receive ==
    /\ pc = "idle"
    /\ \E r \in ([endpoint : {"/predict-from-prompt", "/extract-data"},
                  body : PromptBodies]
                    \cup [endpoint : {"/predict-structured"}, body : StructuredBodies]) :
            request' = r
    /\ pc' = "received"
    /\ UNCHANGED <<now, response, calls, model_input, raised, loaded>>

\* the view function returns (or an exception leaves it)
Finish(resp, called, inputs, exceptions, clock) ==
    /\ pc' = "responded"
    /\ response' = resp
    /\ calls' = called
    /\ model_input' = inputs
    /\ raised' = exceptions
    /\ now' = clock
    /\ UNCHANGED <<request, loaded>>

\* The clock readings of one run of extract_structured_data: midnight may
\* pass between the date extractor's read and the day extractor's.
ClockAfter == {now} \cup ({NextDay(now)} \cap ClockDays)

\* the faults of a run that extracts: an extractor raises, or the response
\* cannot be composed, or nothing fails
FaultsAfter(extractor_raised) ==
    IF extractor_raised THEN {"extract"} ELSE {"none", "compose"}

\* POST /predict-from-prompt
PredictFromPrompt ==
    /\ pc = "received"
    /\ request.endpoint = "/predict-from-prompt"
    /\ \E check \in {PromptCheck(request.body)}, prompt \in {strip(request.body.text)} :
       \E type \in {IF check = "ok" THEN MessageType(prompt) ELSE "none"},
          language \in {IF check = "ok" THEN detect_language(prompt) ELSE "English"} :
          \/ /\ check \in {"BadRequest", "AttributeError"}
             /\ Finish(PredictFromPromptExcept(None, check),
                       <<"get_json">>, <<>>, <<check>>, now)
          \/ /\ check = "no_prompt"
             /\ Finish(Json(400, [error |-> "No prompt provided"]),
                       <<"get_json">>, <<>>, <<>>, now)
          \/ /\ check = "empty"
             /\ Finish(Json(400, [error |-> "Empty prompt provided"]),
                       <<"get_json">>, <<>>, <<>>, now)
          \/ /\ type = "greeting"
             /\ \E variant \in 1..2, fault \in {"none", "compose"} :
                  IF fault = "compose"
                  THEN Finish(PredictFromPromptExcept(Some(prompt), "ComposeFault"),
                              <<"get_json", "detect_language",
                                "generate_greeting_response", "detect_language">>,
                              <<>>, <<"ComposeFault">>, now)
                  ELSE Finish(PlainReply(language, "greeting",
                                         generate_greeting_response(language, variant)),
                              <<"get_json", "detect_language",
                                "generate_greeting_response">>,
                              <<>>, <<>>, now)
          \/ /\ type = "thank_you"
             /\ \E variant \in 1..2, fault \in {"none", "compose"} :
                  IF fault = "compose"
                  THEN Finish(PredictFromPromptExcept(Some(prompt), "ComposeFault"),
                              <<"get_json", "detect_language",
                                "generate_thank_you_response", "detect_language">>,
                              <<>>, <<"ComposeFault">>, now)
                  ELSE Finish(PlainReply(language, "thank_you",
                                         generate_thank_you_response(language, variant)),
                              <<"get_json", "detect_language",
                                "generate_thank_you_response">>,
                              <<>>, <<>>, now)
          \/ /\ type = "prediction"
             /\ \E today_day \in ClockAfter, extractor_raised \in BOOLEAN :
                \E structured_data \in
                        {extract_structured_data(prompt, extractor_raised,
                                                 now, today_day, today_day)},
                   outcome \in ModelOutcomes, fault \in FaultsAfter(extractor_raised) :
                  LET p == predict_passengers(structured_data, outcome)
                      faults == IF fault = "extract" THEN <<"ExtractorFault">> ELSE <<>>
                      called == <<"get_json", "detect_language", "is_prediction_request",
                                  "extract_structured_data", "predict_passengers",
                                  "generate_prediction_response">>
                  IN IF fault = "compose"
                     THEN Finish(PredictFromPromptExcept(Some(prompt), "ComposeFault"),
                                 called \o <<"detect_language">>, p.model_input,
                                 p.raised \o <<"ComposeFault">>, today_day)
                     ELSE Finish(Json(200,
                                   [predicted_passengers |-> p.prediction,
                                    response |-> generate_prediction_response(
                                                    p.prediction, structured_data, language),
                                    extracted_data |-> structured_data,
                                    language_detected |-> language,
                                    message_type |-> "prediction"]),
                                 called, p.model_input, faults \o p.raised, today_day)
          \/ /\ type = "fallback"
             /\ \E fault \in {"none", "compose"} :
                  IF fault = "compose"
                  THEN Finish(PredictFromPromptExcept(Some(prompt), "ComposeFault"),
                              <<"get_json", "detect_language", "is_prediction_request",
                                "generate_fallback_response", "detect_language">>,
                              <<>>, <<"ComposeFault">>, now)
                  ELSE Finish(PlainReply(language, "fallback",
                                         generate_fallback_response(language)),
                              <<"get_json", "detect_language", "is_prediction_request",
                                "generate_fallback_response">>,
                              <<>>, <<>>, now)

\* POST /predict-structured
PredictStructured ==
    /\ pc = "received"
    /\ request.endpoint = "/predict-structured"
    /\ LET body == request.body
           lacks == FirstMissing(body.missing)
       IN \/ /\ body.kind = "malformed"
             /\ Finish(Json(500, [error |-> "Prediction failed: BadRequest"]),
                       <<"get_json">>, <<>>, <<"BadRequest">>, now)
          \/ /\ body.kind = "null"
             /\ Finish(Json(400, [error |-> "No structured data provided"]),
                       <<"get_json">>, <<>>, <<>>, now)
          \/ /\ body.kind = "object" /\ lacks # None
             /\ Finish(Json(400, [error |-> "Missing required field: " \o lacks[1]]),
                       <<"get_json">>, <<>>, <<>>, now)
          \/ /\ body.kind = "object" /\ lacks = None
             /\ \E outcome \in ModelOutcomes, fault \in {"none", "compose"} :
                  LET p == predict_passengers(body.data, outcome)
                  IN IF fault = "compose"
                     THEN Finish(Json(500, [error |-> "Prediction failed: ComposeFault"]),
                                 <<"get_json", "predict_passengers">>, p.model_input,
                                 p.raised \o <<"ComposeFault">>, now)
                     ELSE Finish(Json(200, [predicted_passengers |-> p.prediction,
                                            crowding_level |-> StructuredLevel(p.prediction),
                                            input_data |-> body.data]),
                                 <<"get_json", "predict_passengers">>, p.model_input,
                                 p.raised, now)

\* POST /extract-data
ExtractDataOnly ==
    /\ pc = "received"
    /\ request.endpoint = "/extract-data"
    /\ \E check \in {PromptCheck(request.body)}, prompt \in {strip(request.body.text)} :
          \/ /\ check \in {"BadRequest", "AttributeError"}
             /\ Finish(Json(500, [error |-> "Extraction failed: " \o check]),
                       <<"get_json">>, <<>>, <<check>>, now)
          \/ /\ check = "no_prompt"
             /\ Finish(Json(400, [error |-> "No prompt provided"]),
                       <<"get_json">>, <<>>, <<>>, now)
          \/ /\ check = "empty"
             /\ Finish(Json(400, [error |-> "Empty prompt provided"]),
                       <<"get_json">>, <<>>, <<>>, now)
          \/ /\ check = "ok"
             /\ \E today_day \in ClockAfter, extractor_raised \in BOOLEAN :
                \E structured_data \in
                        {extract_structured_data(prompt, extractor_raised,
                                                 now, today_day, today_day)},
                   fault \in FaultsAfter(extractor_raised) :
                  LET faults == IF fault = "extract" THEN <<"ExtractorFault">> ELSE <<>>
                      called == <<"get_json", "extract_structured_data",
                                  "detect_language", "is_prediction_request">>
                  IN IF fault = "compose"
                     THEN Finish(Json(500, [error |-> "Extraction failed: ComposeFault"]),
                                 called, <<>>, <<"ComposeFault">>, today_day)
                     ELSE Finish(Json(200,
                                   [extracted_data |-> structured_data,
                                    language_detected |-> detect_language(prompt),
                                    original_prompt |-> prompt,
                                    is_prediction_request |-> is_prediction_request(prompt)]),
                                 called, <<>>, faults, today_day)

\* the response is sent and the service waits for the next request
Deliver ==
    /\ pc = "responded"
    /\ pc' = "idle"
    /\ request' = NoRequest
    /\ response' = NoResponse
    /\ calls' = <<>>
    /\ model_input' = <<>>
    /\ raised' = <<>>
    /\ UNCHANGED <<now, loaded>>

Next ==
    \/ Tick
    \/ Receive
    \/ PredictFromPrompt
    \/ PredictStructured
    \/ ExtractDataOnly
    \/ Deliver

Spec == Init /\ [][Next]_vars


(***************************************************************************)
(* is_peak_hours called on its own, on every time of the day               *)
(***************************************************************************)
\* the last hour and the last minute of the times is_peak_hours is given
MaxHour == 23

MaxMinute == 59

\* the calls made: is_peak_hours(f"{hour:02d}:{minute:02d}")
PeakHoursCalls ==
    {[endpoint |-> "is_peak_hours", hour |-> h, minute |-> m,
      time_str |-> Fmt02d(h) \o ":" \o Fmt02d(m)] : h \in 0..MaxHour, m \in 0..MaxMinute}

InitPeakHours ==
    /\ now = FirstDay
    /\ pc = "received"
    /\ request \in PeakHoursCalls
    /\ response = NoResponse
    /\ calls = <<>>
    /\ model_input = <<>>
    /\ raised = <<>>
    /\ loaded = LoadedAtStartup

\* is_peak_hours(time_str) returns
CallIsPeakHours ==
    /\ pc = "received"
    /\ request.endpoint = "is_peak_hours"
    /\ Finish([kind |-> "value", value |-> is_peak_hours(request.time_str)],
              <<"is_peak_hours">>, <<>>, <<>>, now)

SpecPeakHours == InitPeakHours /\ [][CallIsPeakHours]_vars

(***************************************************************************)
(* Requests handled at once by worker threads.  Flask runs each request in *)
(* a thread of its own; every thread runs predict_from_prompt statement by *)
(* statement and the statements of different threads interleave.  Here pc, *)
(* request, response, calls, model_input and raised hold one value per     *)
(* thread; response holds the thread's local variables until it returns.   *)
(* The clock stands still: the requests have the same current date.        *)
(***************************************************************************)
\* the number of threads
NumThreads == 2

Threads == 1..NumThreads

\* the prompts sent to the threads: each asks for a prediction
ThreadPrompts == {"busy", "busy rain", "busy cloudy", "busy 2025-13-45"}

\* model.predict(input_data)[0], in tenths.  The loaded booster is a fixed
\* function of the row; this one stands for it (its values are not the
\* trained model's).
model_predict(row) == 100 + row[3] + 10 * row[2] + row[1]

\* what model.predict does for the row of a query, where it is called
ModelOutcome(structured_data) ==
    IF AssemblyError(structured_data) = "none"
    THEN [raises |-> FALSE, tenths |-> model_predict(FeatureVector(structured_data))]
    ELSE [raises |-> TRUE, tenths |-> 0]

\* the module globals predict_passengers mutating its encoder: the weather
\* encoder is fitted again on the label at hand
AfterPredictRefitting(structured_data) ==
    [loaded EXCEPT !.encoders.weather = <<structured_data.weather>>]

\* the module globals once predict_passengers has run: it assigns to none
AfterPredict(structured_data) == loaded

InitThreads ==
    /\ now = FirstDay
    /\ pc = [t \in Threads |-> "idle"]
    /\ request = [t \in Threads |-> NoRequest]
    /\ response = [t \in Threads |-> NoResponse]
    /\ calls = [t \in Threads |-> <<>>]
    /\ model_input = [t \in Threads |-> <<>>]
    /\ raised = [t \in Threads |-> <<>>]
    /\ loaded = LoadedAtStartup

\* a request is routed to thread t
ThreadReceive(t) ==
    /\ pc[t] = "idle"
    /\ \E text \in ThreadPrompts :
          request' = [request EXCEPT ![t] =
                        [endpoint |-> "/predict-from-prompt",
                         body |-> [kind |-> "object", ptype |-> "string", text |-> text]]]
    /\ pc' = [pc EXCEPT ![t] = "received"]
    /\ UNCHANGED <<now, response, calls, model_input, raised, loaded>>

\* thread t runs predict_from_prompt up to and including
\* `structured_data = NLPProcessor.extract_structured_data(prompt)`
ThreadExtract(t) ==
    /\ pc[t] = "received"
    /\ \E prompt \in {strip(request[t].body.text)} :
          /\ PromptCheck(request[t].body) = "ok"
          /\ MessageType(prompt) = "prediction"
          /\ response' = [response EXCEPT ![t] =
                [kind |-> "locals", prompt |-> prompt,
                 language |-> detect_language(prompt),
                 structured_data |->
                    extract_structured_data(prompt, FALSE, now, now, now)]]
    /\ calls' = [calls EXCEPT ![t] = <<"get_json", "detect_language",
                                       "is_prediction_request",
                                       "extract_structured_data">>]
    /\ pc' = [pc EXCEPT ![t] = "extracted"]
    /\ UNCHANGED <<now, request, model_input, raised, loaded>>

\* thread t runs `prediction = XGBoostPredictor.predict_passengers(structured_data)`
ThreadPredict(t) ==
    /\ pc[t] = "extracted"
    /\ \E p \in {predict_passengers(response[t].structured_data,
                                    ModelOutcome(response[t].structured_data))} :
          /\ response' = [response EXCEPT ![t] =
                [kind |-> "locals", prompt |-> response[t].prompt,
                 language |-> response[t].language,
                 structured_data |-> response[t].structured_data,
                 prediction |-> p.prediction]]
          /\ model_input' = [model_input EXCEPT ![t] = p.model_input]
          /\ raised' = [raised EXCEPT ![t] = p.raised]
    /\ loaded' = AfterPredict(response[t].structured_data)
    /\ calls' = [calls EXCEPT ![t] = Append(calls[t], "predict_passengers")]
    /\ pc' = [pc EXCEPT ![t] = "predicted"]
    /\ UNCHANGED <<now, request>>

\* thread t composes the reply and returns it
ThreadRespond(t) ==
    /\ pc[t] = "predicted"
    /\ response' = [response EXCEPT ![t] =
          Json(200, [predicted_passengers |-> response[t].prediction,
                     response |-> generate_prediction_response(
                                     response[t].prediction,
                                     response[t].structured_data,
                                     response[t].language),
                     extracted_data |-> response[t].structured_data,
                     language_detected |-> response[t].language,
                     message_type |-> "prediction"])]
    /\ calls' = [calls EXCEPT ![t] = Append(calls[t], "generate_prediction_response")]
    /\ pc' = [pc EXCEPT ![t] = "responded"]
    /\ UNCHANGED <<now, request, model_input, raised, loaded>>

\* the response of thread t is sent; the thread is free again
ThreadDeliver(t) ==
    /\ pc[t] = "responded"
    /\ pc' = [pc EXCEPT ![t] = "idle"]
    /\ request' = [request EXCEPT ![t] = NoRequest]
    /\ response' = [response EXCEPT ![t] = NoResponse]
    /\ calls' = [calls EXCEPT ![t] = <<>>]
    /\ model_input' = [model_input EXCEPT ![t] = <<>>]
    /\ raised' = [raised EXCEPT ![t] = <<>>]
    /\ UNCHANGED <<now, loaded>>

NextThreads ==
    \E t \in Threads :
        \/ ThreadReceive(t)
        \/ ThreadExtract(t)
        \/ ThreadPredict(t)
        \/ ThreadRespond(t)
        \/ ThreadDeliver(t)

SpecThreads == InitThreads /\ [][NextThreads]_vars

(***************************************************************************)
(* The label encoders on their own: a query's five labels are encoded as   *)
(* predict_passengers encodes them, and the codes decoded again by the     *)
(* same encoders.                                                          *)
(***************************************************************************)
\* the labels of a fitted encoder
Vocabulary(classes) == {classes[n] : n \in DOMAIN classes}

\* queries to encode: every combination of labels in vocabulary, and two
\* labels no encoder was fitted on
EncoderQueries ==
    [date : {"2025-02-28"}, time : {"08:00"},
     day : Vocabulary(day_encoder) \cup {"Sikukuu"},
     weather : Vocabulary(weather_encoder) \cup {"Stormy"},
     peak_hours : Vocabulary(peak_hours_encoder),
     weekends : Vocabulary(weekends_encoder),
     holidays : Vocabulary(holidays_encoder)]

\* the columns predict_passengers encodes with a LabelEncoder
encoded_columns == <<"day", "weather", "peak_hours", "weekends", "holidays">>

InitEncoders ==
    /\ now = FirstDay
    /\ pc = "labels"
    /\ \E structured_data \in EncoderQueries :
          request = [endpoint |-> "encoders",
                     body |-> [kind |-> "object", data |-> structured_data]]
    /\ response = NoResponse
    /\ calls = <<>>
    /\ model_input = <<>>
    /\ raised = <<>>
    /\ loaded = LoadedAtStartup

\* encoders[column].transform([structured_data[column]])[0] for each column
EncodeLabels ==
    /\ pc = "labels"
    /\ \E codes \in {[n \in 1..Len(encoded_columns) |->
                        transform(encoders[encoded_columns[n]],
                                  request.body.data[encoded_columns[n]])]} :
          IF \E n \in DOMAIN codes : codes[n] = None
          THEN /\ pc' = "raised"
               /\ raised' = <<"EncodingError">>
               /\ model_input' = <<>>
          ELSE /\ pc' = "codes"
               /\ raised' = <<>>
               /\ model_input' = <<[n \in DOMAIN codes |-> codes[n][1]]>>
    /\ calls' = <<"transform">>
    /\ UNCHANGED <<now, request, response, loaded>>

\* encoders[column].inverse_transform([code])[0] for each column
DecodeLabels ==
    /\ pc = "codes"
    /\ response' = [kind |-> "labels",
                    labels |-> [n \in 1..Len(encoded_columns) |->
                                  inverse_transform(encoders[encoded_columns[n]],
                                                    model_input[1][n])]]
    /\ pc' = "decoded"
    /\ calls' = Append(calls, "inverse_transform")
    /\ UNCHANGED <<now, request, model_input, raised, loaded>>

NextEncoders == EncodeLabels \/ DecodeLabels

SpecEncoders == InitEncoders /\ [][NextEncoders]_vars

(***************************************************************************)
(* The properties checked                                                  *)
(***************************************************************************)
\* a view function has returned its response to a request of `endpoint`
Answered(endpoint) == pc = "responded" /\ request.endpoint = endpoint

\* the request carries a prompt that is a string and is not blank
HasPrompt ==
    /\ request.body.kind = "object"
    /\ request.body.ptype = "string"
    /\ \E i \in 1..Len(request.body.text) : CharAt(request.body.text, i) \notin Whitespace

\* C1: a non-empty prompt sent to /predict-from-prompt that is answered (no
\* fault on the way) gets exactly one message type, the first that matches
\* in the order greeting, thank_you, prediction, fallback: 'greeting' iff it
\* holds a greeting phrase, 'thank_you' iff it holds a gratitude phrase and
\* no greeting phrase, 'prediction' iff it holds neither and shows
\* prediction intent, 'fallback' otherwise; and only the generator of that
\* type has run.
C1_FirstMatchWins ==
    (Answered("/predict-from-prompt") /\ HasPrompt /\ response.status = 200) =>
        LET prompt == strip(request.body.text)
            greets == ContainsAny(lower(prompt), greetings)
            thanks == ContainsAny(lower(prompt), thank_you_phrases)
            asks == is_prediction_request(prompt)
            type == response.json.message_type
        IN /\ type \in {"greeting", "thank_you", "prediction", "fallback"}
           /\ (type = "greeting") <=> greets
           /\ (type = "thank_you") <=> (~greets /\ thanks)
           /\ (type = "prediction") <=> (~greets /\ ~thanks /\ asks)
           /\ (type = "fallback") <=> (~greets /\ ~thanks /\ ~asks)
           /\ response.json.response.template = type
           /\ calls[Len(calls)] = "generate_" \o type \o "_response"

\* C1 witness: a prompt with a greeting phrase and prediction intent has
\* been answered as a greeting
C1_Witness ==
    /\ Answered("/predict-from-prompt") /\ HasPrompt
    /\ is_prediction_request(strip(request.body.text))
    /\ ContainsAny(lower(strip(request.body.text)), greetings)
    /\ response.status = 200
    /\ response.json.message_type = "greeting"

\* the structured query of the answered request: the fields sent to
\* /predict-structured, or what /predict-from-prompt and /extract-data
\* report as extracted_data; None where the response holds none
QueryAnswered ==
    IF response.kind # "json" \/ response.status # 200 THEN None
    ELSE IF request.endpoint = "/predict-structured" THEN Some(request.body.data)
    ELSE IF request.endpoint = "/extract-data" THEN Some(response.json.extracted_data)
    ELSE IF response.json.message_type = "prediction"
         THEN Some(response.json.extracted_data)
    ELSE None

\* the codes LabelEncoder gives the labels: their ranks in alphabetical order
DayCode ==
    [Friday |-> 0, Monday |-> 1, Saturday |-> 2, Sunday |-> 3, Thursday |-> 4,
     Tuesday |-> 5, Wednesday |-> 6]

WeatherCode == [Cloudy |-> 0, Rainy |-> 1, Sunny |-> 2]

YesNoCode == [No |-> 0, Yes |-> 1]

\* the query's date and time are well formed and its labels in vocabulary
WellFormed(q) ==
    /\ DateParses(q.date) /\ TimeParses(q.time)
    /\ q.day \in DOMAIN DayCode
    /\ q.weather \in DOMAIN WeatherCode
    /\ {q.peak_hours, q.weekends, q.holidays} \subseteq DOMAIN YesNoCode

\* C2: for every structured query with labels in vocabulary and well-formed
\* date and time, predict_passengers hands the model exactly one vector, of
\* seven columns in the order day code, weather code, time minutes,
\* peak_hours code, weekends code, holidays code, date ordinal, where time
\* minutes is hour * 60 + minute of the time field; the order the columns
\* were built in (date ordinal first) does not show.
C2_FixedColumnOrder ==
    (pc = "responded" /\ request.endpoint \in {"/predict-from-prompt", "/predict-structured"}
        /\ QueryAnswered # None /\ WellFormed(QueryAnswered[1])) =>
        LET q == QueryAnswered[1]
            hour == int(split_colon(q.time)[1])
            minute == int(split_colon(q.time)[2])
        IN /\ Len(model_input) = 1
           /\ Len(model_input[1]) = 7
           /\ model_input[1] =
                <<DayCode[q.day], WeatherCode[q.weather], hour * 60 + minute,
                  YesNoCode[q.peak_hours], YesNoCode[q.weekends],
                  YesNoCode[q.holidays], toordinal(to_datetime(q.date))>>

\* C2 witness: the query 2024-02-29 08:30 Saturday, Cloudy, peak, weekend,
\* no holiday has gone to the model as <<2, 0, 510, 1, 1, 0, 738945>>
C2_Witness ==
    /\ Answered("/predict-structured")
    /\ QueryAnswered # None
    /\ request.body.data = [date |-> "2024-02-29", time |-> "08:30", day |-> "Saturday",
                            weather |-> "Cloudy", peak_hours |-> "Yes",
                            weekends |-> "Yes", holidays |-> "No"]
    /\ model_input = <<<<2, 0, 510, 1, 1, 0, 738945>>>>

\* the exceptions raised (and caught) while the request was handled
Raised == {raised[n] : n \in DOMAIN raised}

\* C3: whatever the text, extract_structured_data returns (on the normal
\* path and, an extractor having raised, on the defaults path) a record
\* with all seven fields filled, whose day is one of the seven English day
\* names, whose weather is Sunny, Rainy or Cloudy and whose peak_hours,
\* weekends and holidays are Yes or No; encoding such a record never fails
\* on an unseen label.
C3_ExtractionInVocabulary ==
    (pc = "responded" /\ request.endpoint \in {"/predict-from-prompt", "/extract-data"}
        /\ QueryAnswered # None) =>
        LET q == QueryAnswered[1]
        IN /\ DOMAIN q = {"date", "time", "day", "weather", "peak_hours",
                          "weekends", "holidays"}
           /\ \A f \in DOMAIN q : q[f] # ""
           /\ q.day \in {"Monday", "Tuesday", "Wednesday", "Thursday", "Friday",
                         "Saturday", "Sunday"}
           /\ q.weather \in {"Sunny", "Rainy", "Cloudy"}
           /\ q.peak_hours \in {"Yes", "No"}
           /\ q.weekends \in {"Yes", "No"}
           /\ q.holidays \in {"Yes", "No"}
           /\ "EncodingError" \notin Raised

\* C3 witness: a text naming a weather and a holiday has been extracted
C3_Witness ==
    /\ Answered("/extract-data")
    /\ QueryAnswered # None
    /\ "ExtractorFault" \notin Raised
    /\ QueryAnswered[1].weather = "Cloudy"
    /\ QueryAnswered[1].holidays = "Yes"

\* C4 (as claimed; the extractor refutes it): whatever the text, the time
\* field the time extractor produces is a 24-hour time HH:MM with the hour
\* in 0..23 and the minute in 0..59, so that hour * 60 + minute lies in
\* 0..1439.  Texts such as "25:99", "13:00 pm" and "99:00 pm" give "25:99",
\* "25:00" and "111:00".
C4_TimeInRange ==
    (pc = "responded" /\ request.endpoint \in {"/predict-from-prompt", "/extract-data"}
        /\ QueryAnswered # None /\ "ExtractorFault" \notin Raised) =>
        LET time == QueryAnswered[1].time
            time_parts == split_colon(time)
        IN /\ Len(time) = 5
           /\ Len(time_parts) = 2
           /\ isdigit(time_parts[1]) /\ int(time_parts[1]) \in 0..23
           /\ isdigit(time_parts[2]) /\ int(time_parts[2]) \in 0..59
           /\ int(time_parts[1]) * 60 + int(time_parts[2]) \in 0..1439
           /\ \A n \in DOMAIN model_input : model_input[n][3] \in 0..1439

\* C5: in every record extract_structured_data returns, from the extractors
\* and from the safe defaults alike, weekends is "Yes" if and only if day is
\* Saturday or Sunday; and over the seven day names is_weekend is "Yes"
\* exactly for Saturday and Sunday.
C5_WeekendsIffSaturdayOrSunday ==
    /\ \A n \in DOMAIN DayNames :
          (is_weekend(DayNames[n]) = "Yes") <=> (DayNames[n] \in {"Saturday", "Sunday"})
    /\ \A n \in DOMAIN DayNames : is_weekend(DayNames[n]) \in {"Yes", "No"}
    /\ (pc = "responded" /\ request.endpoint \in {"/predict-from-prompt", "/extract-data"}
           /\ QueryAnswered # None) =>
          ((QueryAnswered[1].weekends = "Yes")
              <=> (QueryAnswered[1].day \in {"Saturday", "Sunday"}))

\* C5 witness: an extractor raised on a Saturday and the safe defaults came
\* back with day Saturday and weekends "Yes"
C5_Witness ==
    /\ pc = "responded"
    /\ request.endpoint \in {"/predict-from-prompt", "/extract-data"}
    /\ QueryAnswered # None
    /\ "ExtractorFault" \in Raised
    /\ QueryAnswered[1].day = "Saturday"
    /\ QueryAnswered[1].weekends = "Yes"

\* C6: is_peak_hours(time) is "Yes" if and only if the hour of time is one
\* of 7, 8, 9, 17, 18, 19, for every hour of the day and every minute: the
\* minute does not matter, and hours 6, 10, 16 and 20 give "No".
C6_PeakIffHourInWindows ==
    (pc = "responded" /\ request.endpoint = "is_peak_hours") =>
        /\ response.value \in {"Yes", "No"}
        /\ (response.value = "Yes") <=> (request.hour \in {7, 8, 9, 17, 18, 19})

\* C6 witness: 09:59, the last minute of the morning window, was found peak
C6_Witness ==
    /\ pc = "responded"
    /\ request.endpoint = "is_peak_hours"
    /\ request.time_str = "09:59"
    /\ response.value = "Yes"

\* one of the five categorical fields holds a label its encoder was not
\* fitted on
OutOfVocabulary(q) ==
    \/ q.day \notin DOMAIN DayCode
    \/ q.weather \notin DOMAIN WeatherCode
    \/ q.peak_hours \notin DOMAIN YesNoCode
    \/ q.weekends \notin DOMAIN YesNoCode
    \/ q.holidays \notin DOMAIN YesNoCode

\* C7: for every structured query sent to /predict-structured in which day,
\* weather, peak_hours, weekends or holidays holds a label outside its
\* encoder's vocabulary, assembly fails: no vector is built (no code stands
\* in for the label), the model is never invoked, predict_passengers
\* returns its fallback instead of a prediction, and the failure is the
\* encoder's error whenever the encoders are reached, that is whenever the
\* date and the time of the query are well formed.
C7_UnseenLabelFails ==
    (Answered("/predict-structured") /\ request.body.kind = "object"
        /\ request.body.missing = {} /\ OutOfVocabulary(request.body.data)) =>
        /\ model_input = <<>>
        /\ raised # <<>>
        /\ raised[1] \in {"DateParseError", "TimeParseError", "EncodingError"}
        /\ (DateParses(request.body.data.date) /\ TimeParses(request.body.data.time))
              => raised[1] = "EncodingError"
        /\ "ModelError" \notin Raised
        /\ response.status = 200 =>
              response.json.predicted_passengers = FallbackPrediction

\* C7 witness: a query whose only flaw is the weather "sunny" in lower case
\* has been answered after the encoder raised
C7_Witness ==
    /\ Answered("/predict-structured")
    /\ request.body.kind = "object" /\ request.body.missing = {}
    /\ request.body.data = [date |-> "2024-02-29", time |-> "08:30", day |-> "Saturday",
                            weather |-> "sunny", peak_hours |-> "Yes",
                            weekends |-> "Yes", holidays |-> "No"]
    /\ raised = <<"EncodingError">>
    /\ model_input = <<>>
    /\ response.status = 200

\* C8 (as claimed; the handlers refute it): whenever an exception occurs in
\* the extract, assemble, predict flow of a prediction-intent prompt on
\* /predict-from-prompt, the response carries the fallback prediction 43
\* together with the apology in the detected language, not a normal
\* prediction reply and no other prediction value.
C8_FaultGivesFallbackWithApology ==
    (Answered("/predict-from-prompt") /\ response.kind = "json"
        /\ \E n \in DOMAIN calls : calls[n] = "extract_structured_data"
        /\ raised # <<>>) =>
        /\ response.json.predicted_passengers = FallbackPrediction
        /\ response.json.response.template = "apology"
        /\ response.json.response.language = detect_language(strip(request.body.text))
        /\ response.json.message_type # "prediction"

\* C9: every request to /predict-from-prompt, /extract-data or
\* /predict-structured that is handled ends with exactly one well-formed
\* response object: the step that handles a request leaves one response to
\* that request, and whatever failed on the way (the body is missing or no
\* JSON, the prompt is no string, an extractor, the assembly, the model or
\* the composition of the reply raised, the error handler met a prompt that
\* was never bound) the response is a JSON object with status 200, 400 or
\* 500, never an exception that leaves the view function.
C9_AlwaysOneResponse ==
    /\ [][pc = "received" =>
            pc' = "responded" /\ request' = request /\ response' # NoResponse]_vars
    /\ [](pc # "responded" => response = NoResponse)
    /\ [](pc = "responded" =>
          /\ response.kind = "json"
          /\ response.status \in {200, 400, 500}
          /\ (response.status = 200) <=> ("error" \notin DOMAIN response.json)
          /\ (response.status = 500) <=>
                (Raised \cap {"BadRequest", "AttributeError", "ComposeFault"} # {})
          /\ (response.status = 500 /\ request.endpoint = "/predict-from-prompt") =>
                /\ response.json.message_type = "error"
                /\ response.json.predicted_passengers = 0
                /\ response.json.response.template = "apology"
                /\ response.json.language_detected \in {"English", "Swahili"}
                /\ response.json.response.language = response.json.language_detected)

\* C9 witness: a prompt that is a number, not a string, has been answered
\* by the error handler of /predict-from-prompt, in English
C9_Witness ==
    /\ Answered("/predict-from-prompt")
    /\ request.body.kind = "object" /\ request.body.ptype = "number"
    /\ raised = <<"AttributeError">>
    /\ response.kind = "json"
    /\ response.status = 500
    /\ response.json.message_type = "error"
    /\ response.json.language_detected = "English"

\* the prompt of the request is a string of nothing but whitespace
BlankPrompt ==
    /\ request.body.kind = "object"
    /\ request.body.ptype = "string"
    /\ \A i \in 1..Len(request.body.text) : CharAt(request.body.text, i) \in Whitespace

\* C10: on /predict-from-prompt and on /extract-data a prompt that is empty
\* once trimmed is rejected with status 400 and the error "Empty prompt
\* provided", before language detection, classification or an extractor
\* runs: nothing but get_json has been called, no structured query is
\* returned and no prediction is made.
C10_EmptyPromptRejected ==
    (pc = "responded" /\ request.endpoint \in {"/predict-from-prompt", "/extract-data"}
        /\ BlankPrompt) =>
        /\ response = Json(400, [error |-> "Empty prompt provided"])
        /\ calls = <<"get_json">>
        /\ model_input = <<>>
        /\ raised = <<>>

\* C10 witness: a prompt of a space, a tab and a newline sent to
\* /extract-data has been rejected
C10_Witness ==
    /\ Answered("/extract-data")
    /\ BlankPrompt
    /\ request.body.text = " \t\n"
    /\ response.status = 400
    /\ response.json.error = "Empty prompt provided"

\* the record thread t has extracted from its prompt, if it has got that far
ThreadQuery(t) ==
    IF response[t].kind = "locals" THEN Some(response[t].structured_data)
    ELSE IF response[t].kind = "json" THEN Some(response[t].json.extracted_data)
    ELSE None

AloneVector(q) ==
    <<DayCode[q.day], WeatherCode[q.weather],
      int(split_colon(q.time)[1]) * 60 + int(split_colon(q.time)[2]),
      YesNoCode[q.peak_hours], YesNoCode[q.weekends], YesNoCode[q.holidays],
      toordinal(to_datetime(q.date))>>

\* the prediction for query q when its request is the only one
AlonePrediction(q) ==
    IF WellFormed(q) THEN round(model_predict(AloneVector(q))) ELSE FallbackPrediction

\* the prediction thread t has got, if it has got that far
ThreadPrediction(t) ==
    IF response[t].kind = "json" THEN Some(response[t].json.predicted_passengers)
    ELSE IF response[t].kind = "locals" /\ "prediction" \in DOMAIN response[t]
         THEN Some(response[t].prediction)
    ELSE None

\* C12: no request writes the encoders, the model or training_feature_order
\* after startup, and under every interleaving of the statements of
\* concurrent requests (same current date) each request's structured query,
\* feature vector and prediction are the ones it produces when handled
\* alone.
C12_RequestsIsolated ==
    /\ loaded = LoadedAtStartup
    /\ \A t \in Threads :
          ThreadQuery(t) # None =>
              ThreadQuery(t)[1] = ExtractNormal(strip(request[t].body.text), now, now)
    /\ \A t \in Threads :
          ThreadPrediction(t) # None =>
              /\ model_input[t] = IF WellFormed(ThreadQuery(t)[1])
                                  THEN <<AloneVector(ThreadQuery(t)[1])>> ELSE <<>>
              /\ ThreadPrediction(t)[1] = AlonePrediction(ThreadQuery(t)[1])

\* two requests with different prompts were in predict_passengers one after
\* the other before either returned: both have their own row and prediction
C12_Witness ==
    \E t1 \in Threads : \E t2 \in Threads :
        /\ pc[t1] = "predicted" /\ pc[t2] = "predicted"
        /\ request[t1].body.text = "busy rain"
        /\ request[t2].body.text = "busy cloudy"
        /\ Len(model_input[t1]) = 1 /\ Len(model_input[t2]) = 1
        /\ model_input[t1] # model_input[t2]
        /\ ThreadPrediction(t1) # ThreadPrediction(t2)

\* C13: on /extract-data the boolean is_prediction_request equals
\* (message intent = prediction request): it is true exactly for the prompts
\* /predict-from-prompt would answer with message_type 'prediction', and so
\* false for a prompt holding a greeting or gratitude phrase.  (Violated:
\* the endpoint returns the raw keyword test, without the greeting and
\* thank-you checks that come first on /predict-from-prompt.)
C13_FlagIsPredictionIntent ==
    (Answered("/extract-data") /\ response.kind = "json" /\ response.status = 200) =>
        (response.json.is_prediction_request
            <=> MessageType(response.json.original_prompt) = "prediction")

\* the encoder is one-to-one from its vocabulary onto the codes 0..n-1
Bijection(classes) ==
    /\ \A a \in Vocabulary(classes) : \A b \in Vocabulary(classes) :
          transform(classes, a) = transform(classes, b) => a = b
    /\ {transform(classes, a)[1] : a \in Vocabulary(classes)} = 0..(Len(classes) - 1)

\* C14: for every query whose labels are in vocabulary (7 day names, 3
\* weather labels, Yes/No for the three flags), encoding each label as
\* predict_passengers does and then applying the inverse of the same encoder
\* gives back the original label; each encoder is a bijection between its
\* vocabulary and its codes.
C14_EncodeDecodeRoundTrip ==
    /\ \A n \in DOMAIN encoded_columns : Bijection(encoders[encoded_columns[n]])
    /\ pc \in {"codes", "decoded"} =>
          \A n \in DOMAIN encoded_columns :
             request.body.data[encoded_columns[n]]
                \in Vocabulary(encoders[encoded_columns[n]])
    /\ pc = "decoded" =>
          \A n \in DOMAIN encoded_columns :
             response.labels[n] = Some(request.body.data[encoded_columns[n]])

\* Saturday, Rainy, Yes, No, Yes went to the codes 2, 1, 1, 0, 1 and back
C14_Witness ==
    /\ pc = "decoded"
    /\ request.body.data.day = "Saturday"
    /\ request.body.data.weather = "Rainy"
    /\ model_input = <<<<2, 1, 1, 0, 1>>>>
    /\ response.labels = <<Some("Saturday"), Some("Rainy"), Some("Yes"), Some("No"),
                           Some("Yes")>>

\* a prompt endpoint has answered with a record that the extractors produced
\* without raising
ExtractedNormally ==
    /\ pc = "responded"
    /\ request.endpoint \in {"/predict-from-prompt", "/extract-data"}
    /\ QueryAnswered # None
    /\ "ExtractorFault" \notin Raised

\* the prompt as the handlers pass it to the extractors, lower-cased
PromptLower == lower(strip(request.body.text))

\* C15: the holidays flag is 'Yes' iff the lower-cased text contains one of
\* holiday, christmas, new year, easter, sikukuu; it does not depend on the
\* date extracted, so a text naming 2025-12-25 without a keyword gets 'No'.
C15_HolidayByKeywordOnly ==
    ExtractedNormally =>
        /\ QueryAnswered[1].holidays = "Yes" <=>
              \/ Contains(PromptLower, "holiday")
              \/ Contains(PromptLower, "christmas")
              \/ Contains(PromptLower, "new year")
              \/ Contains(PromptLower, "easter")
              \/ Contains(PromptLower, "sikukuu")
        /\ QueryAnswered[1].holidays \in {"Yes", "No"}

\* the text "2025-12-25" was extracted to that date with holidays 'No'
C15_Witness ==
    /\ ExtractedNormally
    /\ request.body.text = "2025-12-25"
    /\ QueryAnswered[1].date = "2025-12-25"
    /\ QueryAnswered[1].holidays = "No"

\* the text has a decimal digit in it
HasDigit(text) == \E i \in 1..Len(text) : CharAt(text, i) \in Digits

\* the words the time extractor knows as named times
NamedTimeWords ==
    <<"morning", "afternoon", "evening", "night", "noon", "midnight", "dawn", "dusk",
      "asubuhi", "mchana", "jioni", "usiku">>

\* the day names of both languages
DayWords ==
    <<"monday", "tuesday", "wednesday", "thursday", "friday", "saturday", "sunday",
      "jumatatu", "jumanne", "jumatano", "alhamisi", "ijumaa", "jumamosi", "jumapili">>

\* the relative day terms of both languages
RelativeDayWords == <<"today", "leo", "tomorrow", "kesho", "yesterday", "jana">>

\* C16: a text with no digit, no named-time word and no day keyword
\* (explicit or relative, in either language) is extracted to time 08:00
\* and to the day name of the current date.
C16_DefaultTimeAndDay ==
    (/\ ExtractedNormally
     /\ ~HasDigit(PromptLower)
     /\ ~ContainsAny(PromptLower, NamedTimeWords)
     /\ ~ContainsAny(PromptLower, DayWords)
     /\ ~ContainsAny(PromptLower, RelativeDayWords))
    => /\ QueryAnswered[1].time = "08:00"
       /\ QueryAnswered[1].day = strftime_A(now)

\* "busy rain" names no time and no day: it was extracted to 08:00 and to
\* the day of the clock, here the Saturday after the first day
C16_Witness ==
    /\ ExtractedNormally
    /\ request.body.text = "busy rain"
    /\ now = NextDay(FirstDay)
    /\ QueryAnswered[1].time = "08:00"
    /\ QueryAnswered[1].day = "Saturday"

\* the keywords that mark a text as Swahili
SwahiliMarkers ==
    <<"je", "saa", "jumamosi", "jumapili", "jumatatu", "jumanne", "jumatano",
      "alhamisi", "ijumaa", "abiria", "basi", "leo", "kesho", "jana",
      "mchana", "usiku", "asubuhi", "jioni", "mvua", "jua", "baridi",
      "ni", "kuna", "ngapi", "idadi", "watu", "wengi", "wachache",
      "ninaweza", "naomba", "tafadhali", "samahani", "karibu">>

\* a prompt endpoint has answered 200 and says which language it detected
LanguageAnswered ==
    /\ pc = "responded"
    /\ request.endpoint \in {"/predict-from-prompt", "/extract-data"}
    /\ response.kind = "json"
    /\ response.status = 200
    /\ "language_detected" \in DOMAIN response.json

\* C17: detect_language returns Swahili iff at least one keyword of the
\* fixed list is a substring of the lower-cased text, and English
\* otherwise; it gives one of the two for every text and changes no state.
C17_SwahiliIffKeywordSubstring ==
    /\ LanguageAnswered =>
          /\ response.json.language_detected \in {"Swahili", "English"}
          /\ response.json.language_detected = "Swahili"
                <=> \E n \in DOMAIN SwahiliMarkers : Contains(PromptLower, SwahiliMarkers[n])
    /\ (pc = "responded" /\ request.endpoint \in {"/predict-from-prompt", "/extract-data"}
           /\ HasPrompt /\ Raised = {})
          => LanguageAnswered
    /\ loaded = LoadedAtStartup

\* "midnight" was taken for Swahili because "ni" is a substring of it
C17_Witness ==
    /\ LanguageAnswered
    /\ request.body.text = "midnight"
    /\ response.json.language_detected = "Swahili"

\* the hour h under the marker am or pm, on the 24-hour clock
Hour24(h, marker) ==
    IF marker = "pm" /\ h # 12 THEN h + 12
    ELSE IF marker = "am" /\ h = 12 THEN 0
    ELSE h

\* C18: whenever the pattern that matched captured an am/pm marker, in the
\* 'H:MM am|pm' family and in the 'H am|pm' family alike, the 12-hour to
\* 24-hour conversion is applied ('5 pm' gives 17:00, '12 am' gives 00:00,
\* '3:15 pm' gives 15:15); the hour is left as written when there is no
\* marker.  (Violated: the conversion looks at group 3, which the two-group
\* pattern 'H am|pm' does not have, so '5 pm' gives 05:00.)
C18_MarkerAlwaysConverts ==
    ExtractedNormally =>
        \A n \in {SearchFirst(time_patterns, PromptLower)} :
            n \in {1, 2} =>
                \A match \in {re_search(time_patterns[n], PromptLower)} :
                    LET marker == IF n = 1 THEN match[3] ELSE match[2]
                        minute == IF n = 1 THEN int(match[2][1]) ELSE 0
                        hour == IF marker = None THEN int(match[1][1])
                                ELSE Hour24(int(match[1][1]), marker[1])
                    IN QueryAnswered[1].time = Fmt02d(hour) \o ":" \o Fmt02d(minute)

\* the times of the named-time words, in the order of the table
NamedTimeValues ==
    <<"08:00", "14:00", "18:00", "20:00", "12:00", "00:00", "06:00", "19:00",
      "08:00", "12:00", "18:00", "20:00">>

\* the families of time_patterns that match somewhere in the text
MatchingFamilies(text_lower) ==
    {n \in 1..5 : re_search(time_patterns[n], text_lower) # NoMatch}

\* the named-time words found in the text, as rows of the table
NamedTimesFound(text_lower) ==
    {n \in DOMAIN NamedTimeWords : Contains(text_lower, NamedTimeWords[n])}

\* C19: the five regular-expression families are tried in their declared
\* order and the first that matches anywhere in the text decides the time,
\* wherever in the text its match lies; the named-time table is consulted
\* only when no family matches, in table order; with neither, the time is
\* 08:00.
C19_FamilyOrderDecides ==
    ExtractedNormally =>
        \A families \in {MatchingFamilies(PromptLower)} :
            IF families # {}
            THEN \E n \in families :
                    /\ \A m \in families : n <= m
                    /\ QueryAnswered[1].time =
                          TimeOfMatch(re_search(time_patterns[n], PromptLower))
            ELSE IF NamedTimesFound(PromptLower) # {}
            THEN \E n \in NamedTimesFound(PromptLower) :
                    /\ \A m \in NamedTimesFound(PromptLower) : n <= m
                    /\ QueryAnswered[1].time = NamedTimeValues[n]
            ELSE QueryAnswered[1].time = "08:00"

\* in "5 pm 8:30 pm" the second family matches first in the text, but the
\* first family, matching further on, decided: 20:30
C19_Witness ==
    /\ ExtractedNormally
    /\ request.body.text = "5 pm 8:30 pm"
    /\ MatchingFamilies(PromptLower) = {1, 2}
    /\ QueryAnswered[1].time = "20:30"

\* the day names found in the text, as positions in DayWords (English names
\* first, Monday to Sunday, then the Swahili names in the same order)
DayWordsFound(text_lower) ==
    {n \in DOMAIN DayWords : Contains(text_lower, DayWords[n])}

\* C20: the day extractor looks for the English names Monday..Sunday, then
\* the Swahili names, then the relative terms (today, tomorrow, yesterday
\* and leo, kesho, jana), and otherwise returns today's name; an explicit
\* name wins over a relative term, and the result is always one of the
\* seven English day names.
C20_DayNameBeforeRelative ==
    ExtractedNormally =>
        /\ QueryAnswered[1].day \in {"Monday", "Tuesday", "Wednesday", "Thursday",
                                     "Friday", "Saturday", "Sunday"}
        /\ \A found \in {DayWordsFound(PromptLower)} :
              IF found # {}
              THEN \E n \in found :
                      /\ \A m \in found : n <= m
                      /\ QueryAnswered[1].day = DayNames[((n - 1) % 7) + 1]
              ELSE IF Contains(PromptLower, "today") \/ Contains(PromptLower, "leo")
              THEN QueryAnswered[1].day = strftime_A(now)
              ELSE IF Contains(PromptLower, "tomorrow") \/ Contains(PromptLower, "kesho")
              THEN QueryAnswered[1].day = strftime_A(NextDay(now))
              ELSE IF Contains(PromptLower, "yesterday") \/ Contains(PromptLower, "jana")
              THEN QueryAnswered[1].day = strftime_A(PrevDay(now))
              ELSE QueryAnswered[1].day = strftime_A(now)

\* on a Friday "kesho Monday" was extracted to Monday, not to Saturday
C20_Witness ==
    /\ ExtractedNormally
    /\ request.body.text = "kesho Monday"
    /\ strftime_A(now) = "Friday"
    /\ QueryAnswered[1].day = "Monday"

\* the families of date_patterns that match somewhere in the text
MatchingDateFamilies(text_lower) ==
    {n \in 1..3 : re_search(date_patterns[n], text_lower) # NoMatch}

\* a string of digits padded with zeros on the left to two characters
TwoDigits(s) == IF Len(s) < 2 THEN "0" \o s ELSE s

\* the date the text names by itself or relative to the day `today`
DateNamed(text_lower, families, today) ==
    IF families # {}
    THEN LET n == CHOOSE n \in families : \A m \in families : n <= m
             match == re_search(date_patterns[n], text_lower)
         IN IF n = 1
            THEN match[1][1] \o "-" \o TwoDigits(match[2][1]) \o "-" \o TwoDigits(match[3][1])
            ELSE match[3][1] \o "-" \o TwoDigits(match[1][1]) \o "-" \o TwoDigits(match[2][1])
    ELSE IF Contains(text_lower, "today") \/ Contains(text_lower, "leo")
         THEN strftime_Ymd(today)
    ELSE IF Contains(text_lower, "tomorrow") \/ Contains(text_lower, "kesho")
         THEN strftime_Ymd(NextDay(today))
    ELSE IF Contains(text_lower, "yesterday") \/ Contains(text_lower, "jana")
         THEN strftime_Ymd(PrevDay(today))
    ELSE strftime_Ymd(today)

\* C21: the date extractor tries YYYY-MM-DD, MM/DD/YYYY, MM-DD-YYYY in that
\* order and the first family that matches decides, normalised to
\* YYYY-MM-DD with month and day padded to two digits (month from the first
\* and day from the second group of the last two families); an explicit
\* date wins over a relative term; with no explicit date today, tomorrow,
\* yesterday (either language) give the current date, the day after and the
\* day before, and anything else the current date.  The current date is the
\* one the clock shows when the handler starts, which is when the date
\* extractor reads it.
C21_DateFamiliesInOrder ==
    [][(pc = "received" /\ ExtractedNormally')
          => \A families \in {MatchingDateFamilies(PromptLower)} :
                QueryAnswered'[1].date = DateNamed(PromptLower, families, now)]_vars

\* in "1/2/2025 2024-3-4" the MM/DD/YYYY family matches first in the text,
\* but the YYYY-MM-DD family decided, padded: 2024-03-04
C21_Witness ==
    /\ ExtractedNormally
    /\ request.body.text = "1/2/2025 2024-3-4"
    /\ MatchingDateFamilies(PromptLower) = {1, 2}
    /\ QueryAnswered[1].date = "2024-03-04"

\* s is YYYY-MM-DD with a month in 1..12 and a day that month has
CalendarDate(s) ==
    /\ Len(s) = 10
    /\ DigitsAt(s, 1, 4) /\ LitAt(s, 5, "-") /\ DigitsAt(s, 6, 2)
    /\ LitAt(s, 8, "-") /\ DigitsAt(s, 9, 2)
    /\ int(SubSeq(s, 6, 7)) \in 1..12
    /\ int(SubSeq(s, 9, 10)) \in 1..DaysInMonth(int(SubSeq(s, 1, 4)), int(SubSeq(s, 6, 7)))

\* C22 (as claimed; the date extractor refutes it): for every text the date
\* field of the extracted record is a calendar date in the form YYYY-MM-DD,
\* month in 1..12 and day valid for the month, so that computing its
\* ordinal in predict_passengers never fails for an extracted record.
\* Texts such as "2025-13-45" and "99/99/2025" give "2025-13-45" and
\* "2025-99-99", on which pd.to_datetime raises.
C22_DateIsCalendarDate ==
    (pc = "responded" /\ request.endpoint \in {"/predict-from-prompt", "/extract-data"}
        /\ QueryAnswered # None) =>
        /\ CalendarDate(QueryAnswered[1].date)
        /\ "DateParseError" \notin Raised

\* the prediction keywords, English and Swahili
PredictionWords ==
    <<"passenger", "passengers", "people", "crowd", "crowded", "busy",
      "how many", "predict", "forecast", "expect", "anticipate",
      "will there be", "going to be", "travel time", "best time",
      "when to travel", "avoid crowds", "less crowded", "peak", "rush",
      "abiria", "watu", "idadi", "ngapi", "wengi", "wachache",
      "msongamano", "kujaa", "tupu", "wakati", "bora", "mzuri",
      "kusafiri", "basi", "gari", "hatua">>

\* the time indicators: day names, time-of-day words, relative-day words,
\* am, pm, o'clock, saa, the colon and the digits 1 to 9
TimeIndicatorWords ==
    DayWords \o
    <<"morning", "afternoon", "evening", "night", "asubuhi", "mchana", "jioni", "usiku">>
    \o RelativeDayWords \o
    <<"am", "pm", "o'clock", "saa", ":", "1", "2", "3", "4", "5", "6", "7", "8", "9">>

\* the text has one of the digits 1 to 9 in it
HasDigit1To9(text) ==
    \E i \in 1..Len(text) : CharAt(text, i) \in (Digits \ {"0"})

\* C23: is_prediction_request is true iff the lower-cased text contains, as
\* a substring, a prediction keyword (English or Swahili) or a time
\* indicator; hence a prompt with a digit 1..9 and no greeting or gratitude
\* phrase is answered as 'prediction', and a prompt matching none of the
\* greeting, gratitude, prediction and time-indicator lists as 'fallback'.
C23_IntentIffKeywordOrIndicator ==
    /\ (Answered("/extract-data") /\ response.kind = "json" /\ response.status = 200) =>
          (response.json.is_prediction_request
              <=> \/ ContainsAny(PromptLower, PredictionWords)
                  \/ ContainsAny(PromptLower, TimeIndicatorWords))
    /\ (Answered("/predict-from-prompt") /\ HasPrompt /\ response.status = 200) =>
          /\ (/\ HasDigit1To9(PromptLower)
              /\ ~ContainsAny(PromptLower, greetings)
              /\ ~ContainsAny(PromptLower, thank_you_phrases))
                => response.json.message_type = "prediction"
          /\ (/\ ~ContainsAny(PromptLower, greetings)
              /\ ~ContainsAny(PromptLower, thank_you_phrases)
              /\ ~ContainsAny(PromptLower, PredictionWords)
              /\ ~ContainsAny(PromptLower, TimeIndicatorWords))
                => response.json.message_type = "fallback"

\* "dusk" is a named time but no time indicator: /extract-data reports no
\* prediction intent for it
C23_Witness ==
    /\ Answered("/extract-data")
    /\ response.kind = "json" /\ response.status = 200
    /\ request.body.text = "dusk"
    /\ response.json.is_prediction_request = FALSE
    /\ response.json.extracted_data.time = "19:00"

\* the handler has called f
Called(f) == \E n \in DOMAIN calls : calls[n] = f

\* the positions in the handler's calls at which f was called
CallsOf(f) == {n \in DOMAIN calls : calls[n] = f}

\* the prompt holds no greeting and no gratitude phrase and shows
\* prediction intent
IsPredictionRequest ==
    /\ HasPrompt
    /\ ~ContainsAny(PromptLower, greetings)
    /\ ~ContainsAny(PromptLower, thank_you_phrases)
    /\ is_prediction_request(strip(request.body.text))

\* C24: on /predict-from-prompt the extractors, the feature assembler and
\* the model run only for a prompt classified as a prediction request, and
\* then in the order extract, assemble and predict, compose the response,
\* each once; every greeting, thank-you and fallback response carries
\* predicted_passengers 0 and an empty extracted_data, and nothing was
\* extracted or predicted for it.
C24_ExtractPredictOnlyForPrediction ==
    (Answered("/predict-from-prompt") /\ response.kind = "json") =>
        /\ (\/ Called("extract_structured_data")
            \/ Called("predict_passengers")
            \/ Called("generate_prediction_response")
            \/ model_input # <<>>)
              => /\ IsPredictionRequest
                 /\ \E e \in DOMAIN calls : \E a \in DOMAIN calls : \E c \in DOMAIN calls :
                       /\ CallsOf("extract_structured_data") = {e}
                       /\ CallsOf("predict_passengers") = {a}
                       /\ CallsOf("generate_prediction_response") = {c}
                       /\ e < a /\ a < c
        /\ (response.status = 200
              /\ response.json.message_type \in {"greeting", "thank_you", "fallback"})
              => /\ response.json.predicted_passengers = 0
                 /\ DOMAIN response.json.extracted_data = {}
                 /\ ~Called("extract_structured_data")
                 /\ ~Called("predict_passengers")
                 /\ model_input = <<>>
                 /\ ~IsPredictionRequest
        /\ (response.status = 200 /\ IsPredictionRequest)
              => /\ response.json.message_type = "prediction"
                 /\ Called("predict_passengers")

\* "hello busy" shows prediction intent behind a greeting: it was answered
\* as a greeting with 0 passengers and nothing extracted or predicted
C24_Witness ==
    /\ Answered("/predict-from-prompt")
    /\ request.body.text = "hello busy"
    /\ response.status = 200
    /\ response.json.message_type = "greeting"
    /\ response.json.predicted_passengers = 0
    /\ calls = <<"get_json", "detect_language", "generate_greeting_response">>

\* C25 (as claimed; the safe defaults refute it): in every record that
\* extract_structured_data returns, on the normal path and on the
\* safe-defaults path after an extractor failure alike, peak_hours is 'Yes'
\* iff the hour of the record's own time field is one of 7, 8, 9, 17, 18,
\* 19.  The defaults pair the time 08:00 with peak_hours 'No'.
C25_PeakMatchesOwnTime ==
    (pc = "responded" /\ request.endpoint \in {"/predict-from-prompt", "/extract-data"}
        /\ QueryAnswered # None) =>
        (QueryAnswered[1].peak_hours = "Yes"
            <=> int(split_colon(QueryAnswered[1].time)[1]) \in {7, 8, 9, 17, 18, 19})

\* C26 (as claimed; the two clock reads refute it): within one call of
\* extract_structured_data on a text with no explicit date and no explicit
\* day name, date and day are resolved against the same instant, so that
\* day is the weekday name of date (for today, tomorrow, yesterday and the
\* default), even when the clock passes midnight between the date
\* extractor's and the day extractor's reads of the current time.
C26_DayIsWeekdayOfDate ==
    (/\ ExtractedNormally
     /\ MatchingDateFamilies(PromptLower) = {}
     /\ DayWordsFound(PromptLower) = {})
    => /\ CalendarDate(QueryAnswered[1].date)
       /\ QueryAnswered[1].day = strftime_A(to_datetime(QueryAnswered[1].date))

\* the n-th word of the named-time table is the only time word of the text:
\* the text holds it, and any other table word in the text lies inside it
OnlyTimeWord(text_lower, n) ==
    /\ Contains(text_lower, NamedTimeWords[n])
    /\ \A m \in NamedTimesFound(text_lower) :
          Contains(NamedTimeWords[n], NamedTimeWords[m])

\* C27 (as claimed; the table order refutes it): every entry of the
\* named-time table is effective: a digit-free text whose only time word is
\* a keyword of the table is extracted to that keyword's own time; so
\* 'midnight' gives 00:00 and 'afternoon' gives 14:00, although 'night' and
\* 'noon' are substrings of them.  'night' stands before 'midnight' in the
\* table, so "midnight" gives 20:00.
C27_EveryNamedTimeEffective ==
    (ExtractedNormally /\ ~HasDigit(PromptLower)) =>
        \A n \in DOMAIN NamedTimeWords :
            OnlyTimeWord(PromptLower, n) => QueryAnswered[1].time = NamedTimeValues[n]

\* C28 (as claimed; the two sources refute it): the peak-hours flag computed
\* at serving time agrees with the flag of the data the model was trained
\* on: for every hour 0..23, in particular 6, 9, 16 and 19, is_peak_hours
\* is 'Yes' exactly when the dataset generator marks the hour as peak.  The
\* generator's windows are 6 <= hour < 9 and 16 <= hour < 19, the service's
\* 7..9 and 17..19: they differ at 6, 9, 16 and 19.
C28_ServingPeakIsTrainingPeak ==
    (pc = "responded" /\ request.endpoint = "is_peak_hours") =>
        (response.value = "Yes" <=> generator_is_peak(request.time_str \o ":00"))

====
